---- MODULE Spec2Model ----
(***************************************************************************)
(* A model of the CryoSat-2 Level-2 reader of pointCollection              *)
(* (pointCollection/CS2/data.py): the ASCII header parsers, the binary     *)
(* record decoders of baselines A/B and C, the netCDF4 decoder of          *)
(* baseline D, the unit scaler and the time model.                         *)
(*                                                                         *)
(* Text is modelled as a sequence of one-character strings, a file of      *)
(* text as a sequence of lines.  Decoded numbers are integers; a scaled    *)
(* column keeps its integer mantissas and a decimal exponent e, so that    *)
(* the value of an element is data * 10^(-e).                              *)
(***************************************************************************)
EXTENDS Integers, Sequences, FiniteSets, TLC

(***************************************************************************)
(* Bounds of the model                                                     *)
(***************************************************************************)
\* longest value text of a generated header line
MaxText == 3
\* largest coordinate of a tile
MaxCoord == 2
\* most tiles passed to one mosaic
MaxTiles == 3
\* most tracks of one call of ATL06_crossovers
MaxTracks == 3

(***************************************************************************)
(* Program constants                                                       *)
(***************************************************************************)
\* number of text lines in standard MPH
n_MPH_lines == 41

(***************************************************************************)
(* Text helpers                                                            *)
(***************************************************************************)
Whitespace == {" ", "\t"}

\* the function f with every value computed once (TLC evaluates a function
\* expression anew at each application otherwise)
Eager(f) == f @@ << >>

Min(a, b) == IF a < b THEN a ELSE b
Max(a, b) == IF a > b THEN a ELSE b

\* s[a..b] with 1-based inclusive bounds, empty when b < a
Sub(s, a, b) == IF b < a THEN << >> ELSE SubSeq(s, a, b)

\* str.rstrip(): trailing whitespace removed
RECURSIVE rstrip(_)
rstrip(s) ==
  IF s = << >> THEN << >>
  ELSE IF s[Len(s)] \in Whitespace THEN rstrip(Sub(s, 1, Len(s) - 1))
  ELSE s

\* positions i at which the two characters c1 c2 start
PairAt(s, c1, c2) == {i \in 1..(Len(s) - 1) : s[i] = c1 /\ s[i + 1] = c2}
CharAt(s, c) == {i \in 1..Len(s) : s[i] = c}
SetMin(S) == CHOOSE x \in S : \A y \in S : x <= y
SetMax(S) == CHOOSE x \in S : \A y \in S : x >= y

\* the elements of s at the indices of the set at, in order
Select(s, at) ==
  [m \in 1..Cardinality(at) |->
     s[CHOOSE i \in at : Cardinality({j \in at : j <= i}) = m]]

\* s starts with the text p
StartsWith(s, p) == Len(s) >= Len(p) /\ Sub(s, 1, Len(p)) = p

(***************************************************************************)
(* The two regular expressions of the header parsers.                      *)
(*   quoted: lazy group, '=', '"', greedy group, lookahead for '"'         *)
(*   bare:   lazy group, '=', greedy group                                 *)
(* The lazy first group stops at the first place from which the rest of    *)
(* the pattern can match; the greedy second group runs to the last         *)
(* double quote of the line (quoted) or to the end of the line (bare).     *)
(***************************************************************************)
\* re.match of the quoted pattern at the start of the line
MatchQuoted(line) ==
  /\ PairAt(line, "=", "\"") # {}
  /\ \E j \in CharAt(line, "\"") : j >= SetMin(PairAt(line, "=", "\"")) + 2

\* mutant: the value group stops at the first closing quote
FindQuoted_firstquote(line) ==
  LET i == SetMin(PairAt(line, "=", "\""))
      j == SetMin({k \in CharAt(line, "\"") : k >= i + 2})
  IN  [field |-> Sub(line, 1, i - 1), value |-> Sub(line, i + 2, j - 1)]

\* re.findall(quoted pattern, line).pop(): the groups of the one match
FindQuoted(line) ==
  LET i == SetMin(PairAt(line, "=", "\""))
      j == SetMax(CharAt(line, "\""))
  IN  [field |-> Sub(line, 1, i - 1), value |-> Sub(line, i + 2, j - 1)]

\* re.match of the bare pattern at the start of the line
MatchBare(line) == CharAt(line, "=") # {}

\* re.findall(bare pattern, line).pop(): the groups of the one match
FindBare(line) ==
  LET i == SetMin(CharAt(line, "="))
  IN  [field |-> Sub(line, 1, i - 1), value |-> Sub(line, i + 1, Len(line))]

\* one pass of the if/elif of the header loops: the (field, value) pair a
\* line sets; a line without '=' sets nothing
SetsField(line) == MatchQuoted(line) \/ MatchBare(line)
FieldOf(line) ==
  LET kv == IF MatchQuoted(line) THEN FindQuoted(line) ELSE FindBare(line)
  IN  [field |-> kv.field, value |-> rstrip(kv.value)]

EmptyDict == [k \in {} |-> << >>]

\* the header loop over file_contents[first..last]: the lines are taken in
\* order and a later line overwrites the field of an earlier one, so every
\* field ends with the value of the last line that sets it
ParseLines(file_contents, first, last) ==
  LET setting == {i \in first..last : SetsField(file_contents[i])}
      parsed == Eager([i \in setting |-> FieldOf(file_contents[i])])
      at(k) == SetMax({i \in setting : parsed[i].field = k})
  IN  [k \in {parsed[i].field : i \in setting} |-> parsed[at(k)].value]

PRODUCT_prefix == <<"P", "R", "O", "D", "U", "C", "T">>

\* re.match of PRODUCT, '=', '"', greedy group, lookahead for '"' 
MatchProduct(line) ==
  /\ StartsWith(line, PRODUCT_prefix \o <<"=", "\"">>)
  /\ \E j \in CharAt(line, "\"") : j >= Len(PRODUCT_prefix) + 3

(***************************************************************************)
(* read_MPH: the first 41 lines of the file as a dictionary.               *)
(* The result is "IndexError" when a line the code indexes does not        *)
(* exist, "IOError" when line 0 is not PRODUCT="...".                      *)
(***************************************************************************)
read_MPH(file_contents) ==
  IF Len(file_contents) = 0 THEN [err |-> "IndexError", fields |-> EmptyDict]
  ELSE IF ~MatchProduct(file_contents[1]) THEN [err |-> "IOError", fields |-> EmptyDict]
  ELSE IF Len(file_contents) < n_MPH_lines THEN [err |-> "IndexError", fields |-> EmptyDict]
  ELSE [err |-> "none", fields |-> ParseLines(file_contents, 1, n_MPH_lines)]

(***************************************************************************)
(* Numbers in files                                                        *)
(***************************************************************************)
\* bytes of a value of type t
Width(t) == IF t \in {"i2", "u2"} THEN 2 ELSE IF t \in {"i4", "u4"} THEN 4 ELSE 8

\* types whose values do not fit the integers of the model checker: their
\* values are kept as the tuple of their big-endian bytes
WideTypes == {"u4", "u8"}

\* np.fromfile(fid, dtype='>t', count=1) on the bytes read: big-endian,
\* two's complement for the signed types
FromBytes(bytes, t) ==
  IF t = "i2" THEN (IF bytes[1] >= 128 THEN bytes[1] - 256 ELSE bytes[1]) * 256 + bytes[2]
  ELSE IF t = "u2" THEN bytes[1] * 256 + bytes[2]
  ELSE IF t = "i4" THEN (IF bytes[1] >= 128 THEN bytes[1] - 256 ELSE bytes[1]) * 16777216
                        + bytes[2] * 65536 + bytes[3] * 256 + bytes[4]
  ELSE bytes

\* the zero a column of type t is allocated with
ZeroOf(t) == IF t \in WideTypes THEN [k \in 1..Width(t) |-> 0] ELSE 0

\* the numpy type a column read as t is allocated with
NumpyType(t) ==
  CASE t = "i2" -> "int16" [] t = "u2" -> "uint16" [] t = "i4" -> "int32"
    [] t = "u4" -> "uint32" [] t = "u8" -> "uint64"

(***************************************************************************)
(* Record layouts: the fields in the order the decoders read them, each    *)
(* with its group and the big-endian type it is read as (i = signed,       *)
(* u = unsigned, then the width in bytes).  The columns are allocated in   *)
(* the same order with the matching numpy type.                            *)
(***************************************************************************)

\* cryosat_baseline_AB: the reads of one record before its sub-records
AB_LowRate ==
  << [g |-> "Data_1Hz", f |-> "Day", t |-> "i4"], [g |-> "Data_1Hz", f |-> "Second", t |-> "i4"],
     [g |-> "Data_1Hz", f |-> "Micsec", t |-> "i4"], [g |-> "Data_1Hz", f |-> "Siral_mode", t |-> "u8"],
     [g |-> "Data_1Hz", f |-> "Lat_1Hz", t |-> "i4"], [g |-> "Data_1Hz", f |-> "Lon_1Hz", t |-> "i4"],
     [g |-> "Data_1Hz", f |-> "Alt_1Hz", t |-> "i4"], [g |-> "Data_1Hz", f |-> "Mispointing", t |-> "i2"],
     [g |-> "Data_1Hz", f |-> "N_valid", t |-> "i2"], [g |-> "Corrections", f |-> "dryTrop", t |-> "i2"],
     [g |-> "Corrections", f |-> "wetTrop", t |-> "i2"], [g |-> "Corrections", f |-> "InvBar", t |-> "i2"],
     [g |-> "Corrections", f |-> "DAC", t |-> "i2"], [g |-> "Corrections", f |-> "Iono", t |-> "i2"],
     [g |-> "Corrections", f |-> "SSB", t |-> "i2"], [g |-> "Corrections", f |-> "ocTideElv", t |-> "i2"],
     [g |-> "Corrections", f |-> "lpeTideElv", t |-> "i2"], [g |-> "Corrections", f |-> "olTideElv", t |-> "i2"],
     [g |-> "Corrections", f |-> "seTideElv", t |-> "i2"], [g |-> "Corrections", f |-> "gpTideElv", t |-> "i2"],
     [g |-> "Corrections", f |-> "Spare1", t |-> "i2"], [g |-> "Corrections", f |-> "Surf_type", t |-> "u8"],
     [g |-> "Corrections", f |-> "MSS_Geoid", t |-> "i4"], [g |-> "Corrections", f |-> "ODLE", t |-> "i4"],
     [g |-> "Corrections", f |-> "Ice_conc", t |-> "i2"], [g |-> "Corrections", f |-> "Snow_depth", t |-> "i2"],
     [g |-> "Corrections", f |-> "Snow_density", t |-> "i2"], [g |-> "Corrections", f |-> "Spare2", t |-> "i2"],
     [g |-> "Corrections", f |-> "C_status", t |-> "u4"], [g |-> "Corrections", f |-> "SWH", t |-> "i2"],
     [g |-> "Corrections", f |-> "Wind_speed", t |-> "u2"], [g |-> "Corrections", f |-> "Spare3", t |-> "i2"],
     [g |-> "Corrections", f |-> "Spare4", t |-> "i2"], [g |-> "Corrections", f |-> "Spare5", t |-> "i2"],
     [g |-> "Corrections", f |-> "Spare6", t |-> "i2"] >>

\* cryosat_baseline_AB: the reads of one sub-record
AB_HighRate ==
  << [g |-> "Data_20Hz", f |-> "D_time_mics", t |-> "i4"], [g |-> "Data_20Hz", f |-> "Lat", t |-> "i4"],
     [g |-> "Data_20Hz", f |-> "Lon", t |-> "i4"], [g |-> "Data_20Hz", f |-> "Elev", t |-> "i4"],
     [g |-> "Data_20Hz", f |-> "SSHA_interp", t |-> "i2"], [g |-> "Data_20Hz", f |-> "SSHA_interp_count", t |-> "i2"],
     [g |-> "Data_20Hz", f |-> "SSHA_interp_RMS", t |-> "i2"], [g |-> "Data_20Hz", f |-> "Sig0", t |-> "i2"],
     [g |-> "Data_20Hz", f |-> "Peakiness", t |-> "u2"], [g |-> "Data_20Hz", f |-> "Freeboard", t |-> "i2"],
     [g |-> "Data_20Hz", f |-> "N_avg", t |-> "i2"], [g |-> "Data_20Hz", f |-> "Spare1", t |-> "i2"],
     [g |-> "Data_20Hz", f |-> "Quality_flag", t |-> "u4"], [g |-> "Data_20Hz", f |-> "Spare2", t |-> "i2"],
     [g |-> "Data_20Hz", f |-> "Spare3", t |-> "i2"], [g |-> "Data_20Hz", f |-> "Spare4", t |-> "i2"],
     [g |-> "Data_20Hz", f |-> "Spare5", t |-> "i2"] >>

\* cryosat_baseline_C: the reads of one record before its sub-records
C_LowRate ==
  << [g |-> "Data_1Hz", f |-> "Day", t |-> "i4"], [g |-> "Data_1Hz", f |-> "Second", t |-> "i4"],
     [g |-> "Data_1Hz", f |-> "Micsec", t |-> "i4"], [g |-> "Data_1Hz", f |-> "Siral_mode", t |-> "u8"],
     [g |-> "Data_1Hz", f |-> "Lat_1Hz", t |-> "i4"], [g |-> "Data_1Hz", f |-> "Lon_1Hz", t |-> "i4"],
     [g |-> "Data_1Hz", f |-> "Alt_1Hz", t |-> "i4"], [g |-> "Data_1Hz", f |-> "Roll", t |-> "i4"],
     [g |-> "Data_1Hz", f |-> "Pitch", t |-> "i4"], [g |-> "Data_1Hz", f |-> "Yaw", t |-> "i4"],
     [g |-> "Data_1Hz", f |-> "Spare", t |-> "i2"], [g |-> "Data_1Hz", f |-> "N_valid", t |-> "i2"],
     [g |-> "Corrections", f |-> "dryTrop", t |-> "i2"], [g |-> "Corrections", f |-> "wetTrop", t |-> "i2"],
     [g |-> "Corrections", f |-> "InvBar", t |-> "i2"], [g |-> "Corrections", f |-> "DAC", t |-> "i2"],
     [g |-> "Corrections", f |-> "Iono", t |-> "i2"], [g |-> "Corrections", f |-> "SSB", t |-> "i2"],
     [g |-> "Corrections", f |-> "ocTideElv", t |-> "i2"], [g |-> "Corrections", f |-> "lpeTideElv", t |-> "i2"],
     [g |-> "Corrections", f |-> "olTideElv", t |-> "i2"], [g |-> "Corrections", f |-> "seTideElv", t |-> "i2"],
     [g |-> "Corrections", f |-> "gpTideElv", t |-> "i2"], [g |-> "Corrections", f |-> "Spare1", t |-> "i2"],
     [g |-> "Corrections", f |-> "Surf_type", t |-> "u8"], [g |-> "Corrections", f |-> "MSS_Geoid", t |-> "i4"],
     [g |-> "Corrections", f |-> "ODLE", t |-> "i4"], [g |-> "Corrections", f |-> "Ice_conc", t |-> "i2"],
     [g |-> "Corrections", f |-> "Snow_depth", t |-> "i2"], [g |-> "Corrections", f |-> "Snow_density", t |-> "i2"],
     [g |-> "Corrections", f |-> "Spare2", t |-> "i2"], [g |-> "Corrections", f |-> "C_status", t |-> "u4"],
     [g |-> "Corrections", f |-> "SWH", t |-> "i2"], [g |-> "Corrections", f |-> "Wind_speed", t |-> "u2"],
     [g |-> "Corrections", f |-> "Spare3", t |-> "i2"], [g |-> "Corrections", f |-> "Spare4", t |-> "i2"],
     [g |-> "Corrections", f |-> "Spare5", t |-> "i2"], [g |-> "Corrections", f |-> "Spare6", t |-> "i2"] >>

\* cryosat_baseline_C: the reads of one sub-record
C_HighRate ==
  << [g |-> "Data_20Hz", f |-> "D_time_mics", t |-> "i4"], [g |-> "Data_20Hz", f |-> "Lat", t |-> "i4"],
     [g |-> "Data_20Hz", f |-> "Lon", t |-> "i4"], [g |-> "Data_20Hz", f |-> "Elev_1", t |-> "i4"],
     [g |-> "Data_20Hz", f |-> "Elev_2", t |-> "i4"], [g |-> "Data_20Hz", f |-> "Elev_3", t |-> "i4"],
     [g |-> "Data_20Hz", f |-> "Sig0_1", t |-> "i2"], [g |-> "Data_20Hz", f |-> "Sig0_2", t |-> "i2"],
     [g |-> "Data_20Hz", f |-> "Sig0_3", t |-> "i2"], [g |-> "Data_20Hz", f |-> "Freeboard", t |-> "i2"],
     [g |-> "Data_20Hz", f |-> "SSHA_interp", t |-> "i2"], [g |-> "Data_20Hz", f |-> "SSHA_interp_count", t |-> "i2"],
     [g |-> "Data_20Hz", f |-> "SSHA_interp_RMS", t |-> "i2"], [g |-> "Data_20Hz", f |-> "Peakiness", t |-> "u2"],
     [g |-> "Data_20Hz", f |-> "N_avg", t |-> "i2"], [g |-> "Data_20Hz", f |-> "Spare1", t |-> "i2"],
     [g |-> "Data_20Hz", f |-> "Quality_flag", t |-> "u4"], [g |-> "Data_20Hz", f |-> "Corrections_flag", t |-> "u4"],
     [g |-> "Data_20Hz", f |-> "Quality_1", t |-> "i4"], [g |-> "Data_20Hz", f |-> "Quality_2", t |-> "i4"],
     [g |-> "Data_20Hz", f |-> "Quality_3", t |-> "i4"] >>

(***************************************************************************)
(* cryosat_scaling_factors: group -> field -> factor.  A factor is         *)
(* num * 10^(-e); the integer factor 1 keeps a column's type, a float      *)
(* factor makes it float64.                                                *)
(***************************************************************************)
ScaleInt == [num |-> 1, e |-> 0, float |-> FALSE]
ScaleFloat(k) == [num |-> 1, e |-> k, float |-> TRUE]

cryosat_scaling_factors ==
  [ Data_1Hz |->
      [ Day |-> ScaleFloat(0), Second |-> ScaleFloat(0), Micsec |-> ScaleFloat(0),
        Siral_mode |-> ScaleInt, Lat_1Hz |-> ScaleFloat(7), Lon_1Hz |-> ScaleFloat(7),
        Alt_1Hz |-> ScaleFloat(3), Roll |-> ScaleFloat(7), Pitch |-> ScaleFloat(7),
        Yaw |-> ScaleFloat(7), Spare |-> ScaleInt, N_valid |-> ScaleInt,
        Abs_Orbit |-> ScaleInt ],
    Corrections |->
      [ dryTrop |-> ScaleFloat(3), wetTrop |-> ScaleFloat(3), InvBar |-> ScaleFloat(3),
        DAC |-> ScaleFloat(3), Iono |-> ScaleFloat(3), SSB |-> ScaleFloat(3),
        ocTideElv |-> ScaleFloat(3), lpeTideElv |-> ScaleFloat(3), olTideElv |-> ScaleFloat(3),
        seTideElv |-> ScaleFloat(3), gpTideElv |-> ScaleFloat(3), Spare1 |-> ScaleInt,
        Surf_type |-> ScaleInt, MSS_Geoid |-> ScaleFloat(3), ODLE |-> ScaleFloat(3),
        Ice_conc |-> ScaleFloat(2), Snow_depth |-> ScaleFloat(3), Snow_density |-> ScaleInt,
        Spare2 |-> ScaleInt, C_status |-> ScaleInt, SWH |-> ScaleFloat(3),
        Wind_speed |-> ScaleFloat(3), Spare3 |-> ScaleInt, Spare4 |-> ScaleInt,
        Spare5 |-> ScaleInt, Spare6 |-> ScaleInt ],
    Data_20Hz |->
      [ D_time_mics |-> ScaleFloat(0), Lat |-> ScaleFloat(7), Lon |-> ScaleFloat(7),
        Elev_1 |-> ScaleFloat(3), Elev_2 |-> ScaleFloat(3), Elev_3 |-> ScaleFloat(3),
        Sig0_1 |-> ScaleFloat(2), Sig0_2 |-> ScaleFloat(2), Sig0_3 |-> ScaleFloat(2),
        Freeboard |-> ScaleFloat(3), SSHA_interp |-> ScaleFloat(3), SSHA_interp_count |-> ScaleInt,
        SSHA_interp_RMS |-> ScaleFloat(3), Peakiness |-> ScaleFloat(2), N_avg |-> ScaleInt,
        Spare1 |-> ScaleInt, Quality_flag |-> ScaleInt, Corrections_flag |-> ScaleInt,
        Quality_1 |-> ScaleInt, Quality_2 |-> ScaleInt, Quality_3 |-> ScaleInt ] ]

\* number of sub-records of a record
n_blocks == 20

\* bytes the reads of fields[1..k] consume
BytesOf(fields, k) ==
  LET n(w) == Cardinality({j \in 1..k : Width(fields[j].t) = w})
  IN  2 * n(2) + 4 * n(4) + 8 * n(8)

\* a layout with the offsets of its reads: lowoff[k] is the offset, from
\* the start of a record, of the read of low-rate field k; highoff[k] the
\* offset, from the start of a sub-record, of the read of high-rate field k;
\* lowidx and highidx give the index of a field from its name
WithOffsets(low, high) ==
  [low |-> low, high |-> high,
   lowoff |-> Eager([k \in 1..Len(low) |-> BytesOf(low, k - 1)]),
   highoff |-> Eager([k \in 1..Len(high) |-> BytesOf(high, k - 1)]),
   lowbytes |-> BytesOf(low, Len(low)),
   highbytes |-> BytesOf(high, Len(high)),
   lowidx |-> Eager([gf \in {<<low[k].g, low[k].f>> : k \in 1..Len(low)} |->
                      CHOOSE k \in 1..Len(low) : low[k].g = gf[1] /\ low[k].f = gf[2]]),
   highidx |-> Eager([f \in {high[k].f : k \in 1..Len(high)} |->
                       CHOOSE k \in 1..Len(high) : high[k].f = f])]

cryosat_baseline_AB == WithOffsets(AB_LowRate, AB_HighRate)
cryosat_baseline_C == WithOffsets(C_LowRate, C_HighRate)

\* offset of the read of low-rate field k and of high-rate field k of
\* sub-record b (b from 0)
LowOffset(lay, k) == lay.lowoff[k]

\* mutant: the sub-records are read field by field, the 20 values of a
\* field one after another
HighOffset_by_field(lay, b, k) ==
  lay.lowbytes + n_blocks * lay.highoff[k] + b * Width(lay.high[k].t)

HighOffset(lay, b, k) == lay.lowbytes + b * lay.highbytes + lay.highoff[k]

\* mutant: sub-records of 19 blocks
RecordBytes_short(lay) == lay.lowbytes + (n_blocks - 1) * lay.highbytes

\* bytes the reads of one whole record consume
RecordBytes(lay) == lay.lowbytes + n_blocks * lay.highbytes

(***************************************************************************)
(* Columns.  A low-rate column is [dtype, e, data] with data[r] the value  *)
(* of record r; a high-rate column is [dtype, e, data, mask] with          *)
(* data[r][b] and mask[r][b] for sub-record slot b, mask TRUE meaning the  *)
(* slot is masked (invalid).  Records and slots are numbered from 1 here,  *)
(* from 0 in the program.  The value of an element is data * 10^(-e).      *)
(***************************************************************************)
Slots == 1..n_blocks

\* mutant: a column one record short
zeros_short(n_records, dtype, zero) ==
  [dtype |-> dtype, e |-> 0, data |-> [r \in 1..(n_records - 1) |-> zero]]

\* np.zeros((n_records), dtype)
zeros(n_records, dtype, zero) ==
  [dtype |-> dtype, e |-> 0, data |-> [r \in 1..n_records |-> zero]]

\* np.ma.zeros((n_records, n_blocks), dtype) with its mask set to np.ones
ma_zeros(n_records, dtype, zero) ==
  [dtype |-> dtype, e |-> 0,
   data |-> [r \in 1..n_records |-> [b \in Slots |-> zero]],
   mask |-> [r \in 1..n_records |-> [b \in Slots |-> TRUE]]]

IsMasked(col) == "mask" \in DOMAIN col

FieldNames(fields, g) == {fields[k].f : k \in {j \in 1..Len(fields) : fields[j].g = g}}

\* the dictionary the decoders of baselines A/B and C allocate
Allocate(lay, n_records) ==
  [g \in {"Data_1Hz", "Corrections", "Data_20Hz"} |->
     IF g = "Data_20Hz"
     THEN [f \in FieldNames(lay.high, g) |->
             LET t == lay.high[lay.highidx[f]].t
             IN  ma_zeros(n_records, NumpyType(t), ZeroOf(t))]
     ELSE [f \in FieldNames(lay.low, g) |->
             LET t == lay.low[lay.lowidx[<<g, f>>]].t
             IN  zeros(n_records, NumpyType(t), ZeroOf(t))]]

\* the stop of the Python slice [:nv] of a sequence of n elements
SliceStop(nv, n) == IF nv < 0 THEN Max(nv + n, 0) ELSE Min(nv, n)

\* mask[r,:nv] = False on row r of a mask
MaskRow(row, nv) ==
  [b \in Slots |-> IF b <= SliceStop(nv, n_blocks) THEN FALSE ELSE row[b]]

(***************************************************************************)
(* Unit scaling                                                            *)
(***************************************************************************)
\* what an element of a masked array reads as where its mask is set: the
\* arithmetic of numpy.ma carries the mask into its result and the data
\* under the mask is not a value of the product
masked == "--"

\* factor * value for one element of a column of numpy type dtype; the
\* factor of a wide column is the integer 1
TimesFactor(s, v, dtype) == IF dtype \in {"uint32", "uint64"} THEN v ELSE s.num * v

\* CS_l2_scale[group][key] * val.copy()
ScaleColumn(s, col) ==
  IF IsMasked(col)
  THEN [dtype |-> IF s.float THEN "float64" ELSE col.dtype,
        e |-> col.e + s.e,
        data |-> [r \in DOMAIN col.data |->
                    [b \in Slots |-> IF col.mask[r][b] THEN masked
                                     ELSE TimesFactor(s, col.data[r][b], col.dtype)]],
        mask |-> col.mask]
  ELSE [dtype |-> IF s.float THEN "float64" ELSE col.dtype,
        e |-> col.e + s.e,
        data |-> [r \in DOMAIN col.data |-> TimesFactor(s, col.data[r], col.dtype)]]

\* the groups of the table of factors, in the order of its keys
ScaleGroups == <<"Data_1Hz", "Corrections", "Data_20Hz">>

\* the (group, key) pairs the scaling loop visits, in its order: the groups
\* of the table in turn, the keys of a group in the order the decoder and
\* from_dbl have added them to the dictionary
ScaleOrder(mds, lay) ==
  LET keys(g) ==
        IF g = "Data_20Hz" THEN [k \in 1..Len(lay.high) |-> <<g, lay.high[k].f>>]
        ELSE LET at == {k \in 1..Len(lay.low) : lay.low[k].g = g}
                 read == Select(lay.low, at)
             IN  [k \in 1..Len(read) |-> <<g, read[k].f>>]
                 \o (IF g = "Data_1Hz" /\ "Abs_Orbit" \in DOMAIN mds[g]
                     THEN << <<g, "Abs_Orbit">>, <<g, "Ascending_flag">> >> ELSE << >>)
  IN  keys(ScaleGroups[1]) \o keys(ScaleGroups[2]) \o keys(ScaleGroups[3])

\* the place in that order of the first key the table has no factor for,
\* one past its end if every key has one
FirstUnscalable(mds, CS_l2_scale, order) ==
  LET bad == {k \in 1..Len(order) :
                /\ mds[order[k][1]][order[k][2]].dtype # "bool"
                /\ order[k][2] \notin DOMAIN CS_l2_scale[order[k][1]]}
  IN  IF bad = {} THEN Len(order) + 1 ELSE SetMin(bad)

\* the dictionary after the scaling loop has visited the keys before place
\* stop: every non-boolean column among them is replaced
ScaleBefore(mds, CS_l2_scale, order, stop) ==
  LET visited == {order[k] : k \in 1..(stop - 1)}
  IN  [g \in DOMAIN mds |->
         [f \in DOMAIN mds[g] |->
            IF <<g, f>> \in visited /\ mds[g][f].dtype # "bool"
            THEN ScaleColumn(CS_l2_scale[g][f], mds[g][f])
            ELSE mds[g][f]]]

(***************************************************************************)
(* Time.  An instant is [d, s, u]: d days, s seconds (0..86399) and u      *)
(* microseconds (0..999999), counted from the GPS epoch for a GPS time.    *)
(* The program holds an instant as one float64 number of seconds; the      *)
(* model keeps the exact value.                                            *)
(***************************************************************************)
\* the largest int32, 2^31 - 1
MaxInt32 == 1073741823 + 1073741824
SecondsPerDay == 86400
MicrosPerSecond == 1000000

\* a + b in int32 arithmetic (wrapping)
Add32(a, b) ==
  IF a >= 0 /\ b >= 0 /\ a > MaxInt32 - b
    THEN (a - MaxInt32 - 1) + (b - MaxInt32 - 1)
  ELSE IF a < 0 /\ b < 0 /\ a < (-MaxInt32 - 1) - b
    THEN (a + MaxInt32 + 1) + (b + MaxInt32 + 1)
  ELSE a + b

\* x.astype('f') for an integer x below 2^31 - 64: the nearest float32,
\* ties to even; integers up to 2^24 are exact
Float32(x) ==
  LET a == IF x < 0 THEN -x ELSE x
      ulp == IF a < 16777216 THEN 1 ELSE IF a < 33554432 THEN 2
             ELSE IF a < 67108864 THEN 4 ELSE IF a < 134217728 THEN 8
             ELSE IF a < 268435456 THEN 16 ELSE IF a < 536870912 THEN 32
             ELSE IF a < 1073741824 THEN 64 ELSE 128
      q == a \div ulp
      rem == a % ulp
      up == 2 * rem > ulp \/ (2 * rem = ulp /\ q % 2 = 1)
      m == (IF up THEN q + 1 ELSE q) * ulp
  IN  IF x < 0 THEN -m ELSE m

\* mutant: the microsecond part of the parent record left out of the sum
MicsecSum_delta_only(micsec, d_time_mics, wraps) ==
  [s |-> d_time_mics \div MicrosPerSecond, u |-> d_time_mics % MicrosPerSecond]

\* Micsec + D_time_mics as whole seconds and microseconds: the sum wraps
\* when both columns are int32 (not unpacked), it is exact when they are
\* float64 (unpacked)
MicsecSum(micsec, d_time_mics, wraps) ==
  IF wraps
  THEN LET m == Add32(micsec, d_time_mics)
       IN  [s |-> m \div MicrosPerSecond, u |-> m % MicrosPerSecond]
  ELSE LET m == (micsec % MicrosPerSecond) + (d_time_mics % MicrosPerSecond)
       IN  [s |-> (micsec \div MicrosPerSecond) + (d_time_mics \div MicrosPerSecond)
                    + (m \div MicrosPerSecond),
            u |-> m % MicrosPerSecond]

\* calc_GPS_time for one element; micsec is [s, u]
calc_GPS_time(day, second, micsec) ==
  LET S == Float32(second) - 19 + micsec.s
  IN  [d |-> day + 7300 + (S \div SecondsPerDay), s |-> S % SecondsPerDay, u |-> micsec.u]

\* GPS times for leap seconds
leaps ==
  << 46828800, 78364801, 109900802, 173059203, 252028804, 315187205,
     346723206, 393984007, 425520008, 457056009, 504489610, 551750411,
     599184012, 820108813, 914803214, 1025136015, 1119744016, 1167264017 >>

\* mutant: an entry is counted only within its own second
AtOrAfter_same_second(t, leap) ==
  t.d = leap \div SecondsPerDay /\ t.s = leap % SecondsPerDay

\* GPS_Time >= leap for one element
AtOrAfter(t, leap) ==
  \/ t.d > leap \div SecondsPerDay
  \/ t.d = leap \div SecondsPerDay /\ t.s >= leap % SecondsPerDay

\* mutant: an instant equal to a table entry is not counted
count_leap_seconds_strict(t) ==
  Cardinality({i \in 1..Len(leaps) :
     \/ t.d > leaps[i] \div SecondsPerDay
     \/ t.d = leaps[i] \div SecondsPerDay /\ t.s > leaps[i] % SecondsPerDay
     \/ t.d = leaps[i] \div SecondsPerDay /\ t.s = leaps[i] % SecondsPerDay /\ t.u > 0})

\* count_leap_seconds for one element: the loop over the table adds one for
\* every entry the instant has reached
count_leap_seconds(t) == Cardinality({i \in 1..Len(leaps) : AtOrAfter(t, leaps[i])})

\* (GPS_Time - leap_seconds)/86400.0 - 7300.0 for one element, as the
\* instant counted from J2000: its value in days is d + (s + u/1e6)/86400
days_J2k_of(t, n) ==
  LET S == t.s - n
  IN  [d |-> t.d - 7300 + (S \div SecondsPerDay), s |-> S % SecondsPerDay, u |-> t.u]

(***************************************************************************)
(* Header text: characters, integers in text                               *)
(***************************************************************************)
\* the characters 0x20..0x5f and 0x61..0x7e in code order (the backquote,
\* 0x60, occurs in no header and is left out)
PrintableLow ==
  << " ", "!", "\"", "#", "$", "%", "&", "'", "(", ")", "*", "+",
     ",", "-", ".", "/", "0", "1", "2", "3", "4", "5", "6", "7",
     "8", "9", ":", ";", "<", "=", ">", "?", "@", "A", "B", "C",
     "D", "E", "F", "G", "H", "I", "J", "K", "L", "M", "N", "O",
     "P", "Q", "R", "S", "T", "U", "V", "W", "X", "Y", "Z", "[",
     "\\", "]", "^", "_" >>
PrintableHigh ==
  << "a", "b", "c", "d", "e", "f", "g", "h", "i", "j", "k", "l",
     "m", "n", "o", "p", "q", "r", "s", "t", "u", "v", "w", "x",
     "y", "z", "{", "|", "}", "~" >>

IsPrintable(c) ==
  \/ \E i \in 1..Len(PrintableLow) : PrintableLow[i] = c
  \/ \E i \in 1..Len(PrintableHigh) : PrintableHigh[i] = c

\* the byte a character of the file is
Ord(c) ==
  IF c = "\t" THEN 9
  ELSE IF \E i \in 1..Len(PrintableLow) : PrintableLow[i] = c
    THEN 31 + (CHOOSE i \in 1..Len(PrintableLow) : PrintableLow[i] = c)
  ELSE 96 + (CHOOSE i \in 1..Len(PrintableHigh) : PrintableHigh[i] = c)

Digits == {"0", "1", "2", "3", "4", "5", "6", "7", "8", "9"}
DigitValue(c) == Ord(c) - Ord("0")

\* int() of a text of digits
RECURSIVE DecimalValue(_)
DecimalValue(t) ==
  IF t = << >> THEN 0 ELSE 10 * DecimalValue(Sub(t, 1, Len(t) - 1)) + DigitValue(t[Len(t)])

\* re.findall of an optional sign and a run of digits, then .pop(), then
\* np.int32: the last run of digits of the text with the sign in front of
\* it; ok is FALSE when the text holds no digit (pop from an empty list)
LastInt(t) ==
  LET at == {i \in 1..Len(t) : t[i] \in Digits}
  IN  IF at = {} THEN [ok |-> FALSE, value |-> 0]
      ELSE LET j == SetMax(at)
               i == SetMin({k \in 1..j : \A m \in k..j : t[m] \in Digits})
               v == DecimalValue(Sub(t, i, j))
           IN  [ok |-> TRUE,
                value |-> IF i > 1 /\ t[i - 1] = "-" THEN -v ELSE v]

\* the names the ten DS_NAME patterns of read_DSD accept, in the order of
\* the patterns: each as the alternatives its optional groups allow
regex_patterns ==
  << { <<"S", "I", "R", "_", "L", "R", "M", "_", "L", "2">>,
       <<"S", "I", "R", "_", "L", "R", "M", "_", "L", "2", "_", "I">> },
     { <<"S", "I", "R", "_", "L", "R", "M", "I", "L", "2">> },
     { <<"S", "I", "R", "_", "S", "A", "R", "_", "L", "2">>,
       <<"S", "I", "R", "_", "S", "A", "R", "_", "L", "2", "A">>,
       <<"S", "I", "R", "_", "S", "A", "R", "_", "L", "2", "B">>,
       <<"S", "I", "R", "_", "S", "A", "R", "_", "L", "2", "_", "I">>,
       <<"S", "I", "R", "_", "S", "A", "R", "_", "L", "2", "A", "_", "I">>,
       <<"S", "I", "R", "_", "S", "A", "R", "_", "L", "2", "B", "_", "I">> },
     { <<"S", "I", "R", "_", "S", "A", "R", "I", "L", "2">>,
       <<"S", "I", "R", "_", "S", "A", "R", "I", "L", "2", "A">>,
       <<"S", "I", "R", "_", "S", "A", "R", "I", "L", "2", "B">> },
     { <<"S", "I", "R", "_", "F", "D", "M", "_", "L", "2">> },
     { <<"S", "I", "R", "_", "S", "I", "N", "_", "L", "2">>,
       <<"S", "I", "R", "_", "S", "I", "N", "_", "L", "2", "_", "I">> },
     { <<"S", "I", "R", "_", "S", "I", "N", "I", "L", "2">> },
     { <<"S", "I", "R", "_", "S", "I", "D", "_", "L", "2">>,
       <<"S", "I", "R", "_", "S", "I", "D", "_", "L", "2", "_", "I">> },
     { <<"S", "I", "R", "_", "S", "I", "D", "I", "L", "2">> },
     { <<"S", "I", "R", "_", "G", "D", "R", "_", "2">>,
       <<"S", "I", "R", "_", "G", "D", "R", "_", "2", "A">>,
       <<"S", "I", "R", "_", "G", "D", "R", "_", "2", "B">>,
       <<"S", "I", "R", "_", "G", "D", "R", "_", "2", "_">> } >>

\* the text of a line from position i on starts with p
HasAt(line, i, p) == i + Len(p) - 1 <= Len(line) /\ Sub(line, i, i + Len(p) - 1) = p

SPH_DESCRIPTOR_prefix == <<"S", "P", "H", "_", "D", "E", "S", "C", "R", "I", "P", "T", "O", "R", "=">>
DS_NAME_prefix == <<"D", "S", "_", "N", "A", "M", "E">>
DS_NAME_quoted == <<"D", "S", "_", "N", "A", "M", "E", "=", "\"">>

\* the characters the class of whitespace and plus of the patterns accepts
PadCharacters == {" ", "\t", "+"}

\* re.search of pattern c in a line: DS_NAME, '=', '"', one of the names of
\* the pattern, any run of pad characters, '"'
SearchPattern(c, line) ==
  \E i \in 1..Len(line) : \E name \in regex_patterns[c] :
     /\ HasAt(line, i, DS_NAME_quoted \o name)
     /\ \E j \in (i + Len(DS_NAME_quoted) + Len(name))..Len(line) :
          /\ line[j] = "\""
          /\ \A k \in (i + Len(DS_NAME_quoted) + Len(name))..(j - 1) : line[k] \in PadCharacters

Failed(e) == [err |-> e, fields |-> EmptyDict]

(***************************************************************************)
(* read_SPH: the lines after the MPH as a dictionary; a DS_NAME line       *)
(* opens a nested dictionary that takes the six lines after it.  A value   *)
(* of the result is [kind |-> "text", text] or [kind |-> "group", group].  *)
(***************************************************************************)
TextValue(t) == [kind |-> "text", text |-> t, group |-> EmptyDict]
GroupValue(d) == [kind |-> "group", text |-> << >>, group |-> d]

\* the lines the list comprehension keeps: a '=' in the line, and no
\* character outside 0x20..0x7e
KeptLine(line) == MatchBare(line) /\ \A i \in 1..Len(line) : IsPrintable(line[i])

\* mutant: the counter is not moved past the lines of the group
AfterGroup_no_skip(c) == c + 1

\* the counter after a DS_NAME line at c: c += 6, then c += 1
AfterGroup(c) == c + 6 + 1

\* the while loop of read_SPH from counter c (from 1 here), fields being
\* the dictionary so far
RECURSIVE SPHLoop(_, _, _)
SPHLoop(s_SPH_lines, c, fields) ==
  IF c > Len(s_SPH_lines) THEN [err |-> "none", fields |-> fields]
  ELSE LET line == s_SPH_lines[c]
       IN  IF StartsWith(line, DS_NAME_prefix)
           THEN IF ~MatchQuoted(line) THEN Failed("IndexError")
                ELSE LET key == rstrip(FindQuoted(line).value)
                         sub == ParseLines(s_SPH_lines, c + 1, Min(c + 6, Len(s_SPH_lines)))
                     IN  SPHLoop(s_SPH_lines, AfterGroup(c),
                                 [k \in DOMAIN fields \cup {key} |->
                                    IF k = key THEN GroupValue(sub) ELSE fields[k]])
           ELSE IF SetsField(line)
           THEN LET kv == FieldOf(line)
                IN  SPHLoop(s_SPH_lines, c + 1,
                            [k \in DOMAIN fields \cup {kv.field} |->
                               IF k = kv.field THEN TextValue(kv.value) ELSE fields[k]])
           ELSE SPHLoop(s_SPH_lines, c + 1, fields)

\* mutant: the SPH is read from the line that follows the MPH
read_SPH_from_MPH_end(file_contents, j_sph_size) ==
  IF Len(file_contents) < n_MPH_lines + 1 THEN Failed("IndexError")
  ELSE IF ~StartsWith(file_contents[n_MPH_lines + 1], SPH_DESCRIPTOR_prefix) THEN Failed("IOError")
  ELSE LET kept == {i \in (n_MPH_lines + 1)..Len(file_contents) : KeptLine(file_contents[i])}
       IN  SPHLoop(Select(file_contents, kept), 1, EmptyDict)

\* the line of index n_MPH_lines+1 from 0 is the line n_MPH_lines+2 from 1
read_SPH(file_contents, j_sph_size) ==
  IF Len(file_contents) < n_MPH_lines + 2 THEN Failed("IndexError")
  ELSE IF ~StartsWith(file_contents[n_MPH_lines + 2], SPH_DESCRIPTOR_prefix) THEN Failed("IOError")
  ELSE LET kept == {i \in (n_MPH_lines + 2)..Len(file_contents) : KeptLine(file_contents[i])}
       IN  SPHLoop(Select(file_contents, kept), 1, EmptyDict)

(***************************************************************************)
(* read_DSD: the eight lines from the first line that matches the first    *)
(* pattern matching any line, as a dictionary.                             *)
(***************************************************************************)
n_DSD_lines == 8

\* mutant: every line that starts with a quoted DS_NAME counts as a match
indice_any_name(file_contents, c) ==
  {i \in 0..(Len(file_contents) - n_MPH_lines - 2) :
      StartsWith(file_contents[n_MPH_lines + 2 + i], DS_NAME_quoted)}

\* indice of the while loop for pattern c: the matching lines after the MPH,
\* numbered from 0 at file_contents[n_MPH_lines+1]
indice(file_contents, c) ==
  {i \in 0..(Len(file_contents) - n_MPH_lines - 2) :
      SearchPattern(c, file_contents[n_MPH_lines + 2 + i])}

\* mutant: the first line in file order that any pattern matches
read_DSD_first_line(file_contents) ==
  LET lines == UNION {indice(file_contents, c) : c \in 1..Len(regex_patterns)}
  IN  IF lines = {} THEN Failed("IOError")
      ELSE LET DSD_START == n_MPH_lines + SetMin(lines) + 1
           IN  IF DSD_START + n_DSD_lines > Len(file_contents) THEN Failed("IndexError")
               ELSE [err |-> "none",
                     fields |-> ParseLines(file_contents, DSD_START + 1, DSD_START + n_DSD_lines)]

read_DSD(file_contents) ==
  LET found == {c \in 1..Len(regex_patterns) : indice(file_contents, c) # {}}
  IN  IF found = {} THEN Failed("IOError")
      ELSE LET DSD_START == n_MPH_lines + SetMin(indice(file_contents, SetMin(found))) + 1
           IN  \* file_contents[i] for i in DSD_START .. DSD_START+n_DSD_lines-1 (from 0)
               IF DSD_START + n_DSD_lines > Len(file_contents) THEN Failed("IndexError")
               ELSE [err |-> "none",
                     fields |-> ParseLines(file_contents, DSD_START + 1, DSD_START + n_DSD_lines)]

(***************************************************************************)
(* The file name.  from_dbl and from_nc search the base name of the file   *)
(* for the pattern                                                         *)
(*   (.*?)_(class)_(product)__(\d+T?\d+)_(\d+T?\d+)_(.*?)(\d+)             *)
(* and take the groups of the last match found.                            *)
(***************************************************************************)
\* the group the file name pattern takes between the stop time and the
\* version number: the lazy group ends where the digits of the version
\* start; ok is FALSE when no digit follows (findall is empty and pop fails)
BaselineOf(tail) ==
  LET at == {i \in 1..Len(tail) : tail[i] \in Digits}
  IN  IF at = {} THEN [ok |-> FALSE, BASELINE |-> << >>]
      ELSE [ok |-> TRUE, BASELINE |-> Sub(tail, 1, SetMin(at) - 1)]

\* CryoSat file class
regex_class ==
  { <<"O", "F", "F", "L">>,
    <<"N", "R", "T", "_">>,
    <<"R", "P", "R", "O">>,
    <<"T", "E", "S", "T">>,
    <<"L", "T", "A", "_">> }

\* mutant: any product of the mission is taken
regex_products_any ==
  { <<"S", "I", "R", "_", "L", "R", "M", "_", "2">>,
    <<"S", "I", "R", "_", "F", "D", "M", "_", "2">>,
    <<"S", "I", "R", "_", "S", "I", "N", "_", "2">>,
    <<"S", "I", "R", "_", "S", "I", "D", "_", "2">>,
    <<"S", "I", "R", "_", "S", "A", "R", "_", "2">>,
    <<"S", "I", "R", "_", "G", "D", "R", "_", "2">>,
    <<"S", "I", "R", "_", "L", "R", "M", "I", "2">>,
    <<"S", "I", "R", "_", "S", "I", "N", "I", "2">>,
    <<"S", "I", "R", "_", "S", "I", "D", "I", "2">>,
    <<"S", "I", "R", "_", "S", "A", "R", "I", "2">>,
    <<"S", "I", "R", "_", "S", "I", "N", "_", "3">> }

\* CryoSat mission products
regex_products ==
  { <<"S", "I", "R", "_", "L", "R", "M", "_", "2">>,
    <<"S", "I", "R", "_", "F", "D", "M", "_", "2">>,
    <<"S", "I", "R", "_", "S", "I", "N", "_", "2">>,
    <<"S", "I", "R", "_", "S", "I", "D", "_", "2">>,
    <<"S", "I", "R", "_", "S", "A", "R", "_", "2">>,
    <<"S", "I", "R", "_", "G", "D", "R", "_", "2">>,
    <<"S", "I", "R", "_", "L", "R", "M", "I", "2">>,
    <<"S", "I", "R", "_", "S", "I", "N", "I", "2">>,
    <<"S", "I", "R", "_", "S", "I", "D", "I", "2">>,
    <<"S", "I", "R", "_", "S", "A", "R", "I", "2">> }

\* _(class)_(product)__ at position e of the name: the position after it,
\* 0 when it is not there
HeadEnd(name, e) ==
  LET cs == {c \in regex_class : HasAt(name, e, <<"_">> \o c \o <<"_">>)}
      ps == {p \in regex_products :
               \E c \in cs : HasAt(name, e + Len(c) + 2, p \o <<"_", "_">>)}
  IN  IF ps = {} THEN 0
      ELSE LET c == CHOOSE c \in cs : TRUE
               p == CHOOSE p \in ps : TRUE
           IN  e + Len(c) + Len(p) + 4

\* the length of the run of digits that starts at position q
RECURSIVE DigitRun(_, _)
DigitRun(name, q) ==
  IF q <= Len(name) /\ name[q] \in Digits THEN 1 + DigitRun(name, q + 1) ELSE 0

\* (\d+T?\d+)_ at position q: the position after the underscore, 0 when it
\* does not match.  The group ends where a run of digits ends, so it is
\* two digits or more, or digits, T and digits.
StampEnd(name, q) ==
  LET a == DigitRun(name, q)
      b == DigitRun(name, q + a + 1)
  IN  IF a >= 2 /\ HasAt(name, q + a, <<"_">>) THEN q + a + 1
      ELSE IF a >= 1 /\ HasAt(name, q + a, <<"T">>) /\ b >= 1
                /\ HasAt(name, q + a + 1 + b, <<"_">>) THEN q + a + b + 2
      ELSE 0

NoMatch == [ok |-> FALSE, BASELINE |-> << >>, end |-> 0]

\* the groups BASELINE and VERSION at position t: the lazy group ends at
\* the first digit, the version is the run of digits from there
TailMatch(name, t) ==
  LET tail == BaselineOf(Sub(name, t, Len(name)))
      d == t + Len(tail.BASELINE)
  IN  IF t = 0 \/ ~tail.ok THEN NoMatch
      ELSE [ok |-> TRUE, BASELINE |-> tail.BASELINE, end |-> d + DigitRun(name, d)]

\* the pattern after its first group, at position e
MatchAt(name, e) ==
  LET h == HeadEnd(name, e)
      s == IF h = 0 THEN 0 ELSE StampEnd(name, h)
      t == IF s = 0 THEN 0 ELSE StampEnd(name, s)
  IN  TailMatch(name, t)

\* rx.findall(fileBasename).pop(): the search goes on after every match
\* and the last match is taken; the lazy first group makes a match start
\* where the search does and reach to the first place the rest matches at.
\* The result is `last` when nothing matches from position p on.
RECURSIVE findall_pop(_, _, _)
findall_pop(name, p, last) ==
  LET E == {e \in p..Len(name) : name[e] = "_" /\ MatchAt(name, e).ok}
  IN  IF E = {} THEN last
      ELSE findall_pop(name, MatchAt(name, SetMin(E)).end, MatchAt(name, SetMin(E)))

(***************************************************************************)
(* cryosat_baseline_D: the fields of the dictionary and the netCDF4        *)
(* variables they are made from, in the order the decoder adds them, and   *)
(* the file attributes the metadata is made from.                          *)
(***************************************************************************)
\* the low-rate fields copied from a variable
D_LowRate ==
  << [g |-> "Data_1Hz", f |-> "Lat_1Hz", v |-> "lat_01"],
     [g |-> "Data_1Hz", f |-> "Lon_1Hz", v |-> "lon_01"],
     [g |-> "Data_1Hz", f |-> "Alt_1Hz", v |-> "alt_01"],
     [g |-> "Data_1Hz", f |-> "Roll", v |-> "off_nadir_roll_angle_str_01"],
     [g |-> "Data_1Hz", f |-> "Pitch", v |-> "off_nadir_pitch_angle_str_01"],
     [g |-> "Data_1Hz", f |-> "Yaw", v |-> "off_nadir_yaw_angle_str_01"],
     [g |-> "Data_1Hz", f |-> "N_valid", v |-> "num_valid_01"],
     [g |-> "Corrections", f |-> "dryTrop", v |-> "mod_dry_tropo_cor_01"],
     [g |-> "Corrections", f |-> "wetTrop", v |-> "mod_wet_tropo_cor_01"],
     [g |-> "Corrections", f |-> "InvBar", v |-> "inv_bar_cor_01"],
     [g |-> "Corrections", f |-> "DAC", v |-> "hf_fluct_total_cor_01"],
     [g |-> "Corrections", f |-> "Iono", v |-> "iono_cor_01"],
     [g |-> "Corrections", f |-> "Iono_GIM", v |-> "iono_cor_gim_01"],
     [g |-> "Corrections", f |-> "SSB", v |-> "sea_state_bias_01_ku"],
     [g |-> "Corrections", f |-> "ocTideElv", v |-> "ocean_tide_01"],
     [g |-> "Corrections", f |-> "lpeTideElv", v |-> "ocean_tide_eq_01"],
     [g |-> "Corrections", f |-> "olTideElv", v |-> "load_tide_01"],
     [g |-> "Corrections", f |-> "seTideElv", v |-> "solid_earth_tide_01"],
     [g |-> "Corrections", f |-> "gpTideElv", v |-> "pole_tide_01"],
     [g |-> "Corrections", f |-> "Geoid", v |-> "geoid_01"],
     [g |-> "Corrections", f |-> "MSS", v |-> "mean_sea_surf_sea_ice_01"],
     [g |-> "Corrections", f |-> "ODLE", v |-> "odle_01"],
     [g |-> "Corrections", f |-> "Ice_conc", v |-> "sea_ice_concentration_01"],
     [g |-> "Corrections", f |-> "Snow_depth", v |-> "snow_depth_01"],
     [g |-> "Corrections", f |-> "Snow_density", v |-> "snow_density_01"],
     [g |-> "Corrections", f |-> "C_status", v |-> "flag_cor_err_01"],
     [g |-> "Corrections", f |-> "SWH", v |-> "swh_ocean_01_ku"],
     [g |-> "Corrections", f |-> "Wind_speed", v |-> "wind_speed_alt_01_ku"] >>

\* the high-rate fields, in the order of their allocation, each with the
\* flat variable the record loop slices for it
D_HighRate ==
  << [f |-> "Time", v |-> "time_20_ku"], [f |-> "D_time_mics", v |-> "time_20_ku"],
     [f |-> "Lat", v |-> "lat_poca_20_ku"], [f |-> "Lon", v |-> "lon_poca_20_ku"],
     [f |-> "Elev_1", v |-> "height_1_20_ku"], [f |-> "Elev_2", v |-> "height_2_20_ku"],
     [f |-> "Elev_3", v |-> "height_3_20_ku"], [f |-> "Sig0_1", v |-> "sig0_1_20_ku"],
     [f |-> "Sig0_2", v |-> "sig0_2_20_ku"], [f |-> "Sig0_3", v |-> "sig0_3_20_ku"],
     [f |-> "Range_1", v |-> "range_1_20_ku"], [f |-> "Range_2", v |-> "range_2_20_ku"],
     [f |-> "Range_3", v |-> "range_3_20_ku"], [f |-> "Freeboard", v |-> "freeboard_20_ku"],
     [f |-> "Sea_Ice_Lead", v |-> "height_sea_ice_lead_20_ku"],
     [f |-> "Sea_Ice_Floe", v |-> "height_sea_ice_floe_20_ku"],
     [f |-> "SSHA_interp", v |-> "ssha_interp_20_ku"],
     [f |-> "SSHA_interp_count", v |-> "ssha_interp_numval_20_ku"],
     [f |-> "SSHA_interp_RMS", v |-> "ssha_interp_rms_20_ku"],
     [f |-> "Peakiness", v |-> "peakiness_20_ku"],
     [f |-> "N_avg", v |-> "echo_avg_numval_20_ku"],
     [f |-> "Quality_flag", v |-> "flag_prod_status_20_ku"],
     [f |-> "Corrections_flag", v |-> "flag_cor_applied_20_ku"],
     [f |-> "Measurement_Mode", v |-> "flag_instr_mode_op_20_ku"],
     [f |-> "Surf_type", v |-> "surf_type_20_ku"],
     [f |-> "Quality_1", v |-> "retracker_1_quality_20_ku"],
     [f |-> "Quality_2", v |-> "retracker_2_quality_20_ku"],
     [f |-> "Quality_3", v |-> "retracker_3_quality_20_ku"] >>

\* the keys of the metadata and the attributes they are read from
D_MPH ==
  << <<"PRODUCT", "product_name">>, <<"DOI", "doi">>, <<"PROC_STAGE", "processing_stage">>,
     <<"REF_DOC", "reference_document">>, <<"ACQUISITION_STATION", "acquisition_station">>,
     <<"PROC_CENTER", "processing_centre">>, <<"PROC_TIME", "creation_time">>,
     <<"SOFTWARE_VER", "software_version">>, <<"SENSING_START", "sensing_start">>,
     <<"SENSING_STOP", "sensing_stop">>, <<"PHASE", "phase">>, <<"CYCLE", "cycle_number">>,
     <<"REL_ORBIT", "rel_orbit_number">>, <<"ABS_ORBIT", "abs_orbit_number">>,
     <<"STATE_VECTOR_TIME", "state_vector_time">>, <<"DELTA_UT1", "delta_ut1">>,
     <<"X_POSITION", "x_position">>, <<"Y_POSITION", "y_position">>,
     <<"Z_POSITION", "z_position">>, <<"X_VELOCITY", "x_velocity">>,
     <<"Y_VELOCITY", "y_velocity">>, <<"Z_VELOCITY", "z_velocity">>,
     <<"VECTOR_SOURCE", "vector_source">>, <<"LEAP_UTC", "leap_utc">>,
     <<"LEAP_SIGN", "leap_sign">>, <<"LEAP_ERR", "leap_err">>, <<"PRODUCT_ERR", "product_err">> >>

D_SPH ==
  << <<"START_RECORD_TAI_TIME", "first_record_time">>,
     <<"STOP_RECORD_TAI_TIME", "last_record_time">>, <<"ABS_ORBIT_START", "abs_orbit_start">>,
     <<"REL_TIME_ASC_NODE_START", "rel_time_acs_node_start">>,
     <<"ABS_ORBIT_STOP", "abs_orbit_stop">>,
     <<"REL_TIME_ASC_NODE_STOP", "rel_time_acs_node_stop">>,
     <<"EQUATOR_CROSS_TIME_UTC", "equator_cross_time">>,
     <<"EQUATOR_CROSS_LONG", "equator_cross_long">>, <<"ASCENDING_FLAG", "ascending_flag">>,
     <<"START_LAT", "first_record_lat">>, <<"START_LONG", "first_record_lon">>,
     <<"STOP_LAT", "last_record_lat">>, <<"STOP_LONG", "last_record_lon">>,
     <<"L1_PROC_FLAG", "l1b_proc_flag">>,
     <<"L1_PROCESSING_QUALITY", "l1b_processing_quality">>,
     <<"L1_PROC_THRESH", "l1b_proc_thresh">>, <<"INSTR_ID", "instr_id">>,
     <<"LRM_MODE_PERCENT", "lrm_mode_percent">>, <<"SAR_MODE_PERCENT", "sar_mode_percent">>,
     <<"SARIN_MODE_PERCENT", "sarin_mode_percent">>,
     <<"OPEN_OCEAN_PERCENT", "open_ocean_percent">>,
     <<"CLOSE_SEA_PERCENT", "close_sea_percent">>,
     <<"CONTINENT_ICE_PERCENT", "continent_ice_percent">>, <<"LAND_PERCENT", "land_percent">>,
     <<"L2_PROD_STATUS", "l2_prod_status">>, <<"L2_PROC_FLAG", "l2_proc_flag">>,
     <<"L2_PROCESSING_QUALITY", "l2_processing_quality">>,
     <<"L2_PROC_THRESH", "l2_proc_thresh">>, <<"SIR_CONFIGURATION", "sir_configuration">>,
     <<"SIR_OP_MODE", "sir_op_mode">>, <<"ORBIT_FILE", "xref_orbit">>,
     <<"PROC_CONFIG_PARAMS_FILE", "xref_pconf">>, <<"CONSTANTS_FILE", "xref_constants">>,
     <<"IPF_RA_DATABASE_FILE", "xref_siral_characterisation">>,
     <<"DORIS_USO_DRIFT_FILE", "xref_uso">>,
     <<"STAR_TRACKER_ATTREF_FILE", "xref_star_tracker_attref">>,
     <<"SIRAL_LEVEL_0_FILE", "xref_siral_l0">>, <<"CALIBRATION_TYPE_1_FILE", "xref_cal1">>,
     <<"SIR_COMPLEX_CAL1_SARIN", "xref_cal1_sarin">>,
     <<"SCENARIO_FILE", "xref_orbit_scenario">>, <<"CALIBRATION_TYPE_2_FILE", "xref_cal2">>,
     <<"SURFACE_PRESSURE_FILE", "xref_surf_pressure">>,
     <<"MEAN_PRESSURE_FILE", "xref_mean_pressure">>,
     <<"WET_TROPOSPHERE_FILE", "xref_wet_trop">>, <<"U_WIND_FILE", "xref_u_wind">>,
     <<"V_WIND_FILE", "xref_v_wind">>, <<"METEO_GRID_DEF_FILE", "xref_meteo">>,
     <<"S1S2_PRESSURE_00H_MAP", "xref_s1s2_pressure_00h">>,
     <<"S1S2_PRESSURE_06H_MAP", "xref_s1s2_pressure_06h">>,
     <<"S1S2_PRESSURE_12H_MAP", "xref_s1s2_pressure_12h">>,
     <<"S1S2_PRESSURE_18H_MAP", "xref_s1s2_pressure_18h">>,
     <<"S1_TIDE_AMPLITUDE_MAP", "xref_s1_tide_amplitude">>,
     <<"S1_TIDE_PHASE_MAP", "xref_s1_tide_phase">>,
     <<"S2_TIDE_AMPLITUDE_MAP", "xref_s2_tide_amplitude">>,
     <<"S2_TIDE_PHASE_MAP", "xref_s2_tide_phase">>, <<"GPS_IONO_MAP", "xref_gim">>,
     <<"MODIFIED_DIP_MAP_FILE", "xref_dip_map">>, <<"IONO_COEFFICENTS_FILE", "xref_iono_cor">>,
     <<"SAI_FILE", "xref_sai">>, <<"OCEAN_TIDE_FILE", "xref_ocean_tide">>,
     <<"TIDAL_LOADING_FILE", "xref_tidal_load">>, <<"EARTH_TIDE_FILE", "xref_earth_tide">>,
     <<"POLE_TIDE_FILE", "xref_pole_location">>, <<"SURFACE_TYPE_FILE", "xref_surf_type">>,
     <<"AUX_MOG2D", "xref_mog2d">>, <<"SIRAL_LEVEL_1B_FILE", "xref_siral_l1b">>,
     <<"MEAN_SEA_SURFACE_FILE", "xref_mss">>, <<"GEOID_FILE", "xref_geoid">>,
     <<"ODLE_FILE", "xref_odle">> >>

\* mode dependent attributes, read when the file has them
D_Optional ==
  << <<"DEM_MODEL_FILE", "xref_dem">>, <<"SEA_ICE_FILE", "xref_sea_ice">>,
     <<"SNOW_DEPTH_FILE", "xref_snow_depth">> >>

(***************************************************************************)
(* cryosat_baseline_D.  A time of the file, a float64 number of seconds    *)
(* since 2000, is [sec, u]: the whole seconds below it and the             *)
(* microseconds above them (0..999999); the model keeps the exact value.   *)
(***************************************************************************)
\* the whole seconds of a time, its fraction cut off towards zero
Truncated(t) == IF t.sec < 0 /\ t.u > 0 THEN t.sec + 1 ELSE t.sec

\* np.array(time_cor_01/86400.0, dtype=np.int32)
DayOf(t) ==
  IF Truncated(t) >= 0 THEN Truncated(t) \div SecondsPerDay
  ELSE -((-Truncated(t)) \div SecondsPerDay)

\* np.array(time_cor_01 - Day*86400.0, dtype=np.int32)
SecondOf(t) == Truncated(t) - DayOf(t) * SecondsPerDay

\* np.array((time_cor_01 - Day*86400.0 - Second)*1e6, dtype=np.int32)
MicsecOf(t) == IF t.sec < 0 /\ t.u > 0 THEN t.u - MicrosPerSecond ELSE t.u

\* 1e6*(a - b) for two times of the file
MicrosBetween(a, b) == (a.sec - b.sec) * MicrosPerSecond + (a.u - b.u)

\* the slice [start:stop] of an array of n elements: the index of its
\* first element and its length
PySlice(start, stop, n) ==
  [first |-> SliceStop(start, n),
   len |-> Max(SliceStop(stop, n) - SliceStop(start, n), 0)]

\* a[r,:cnt] = x for a slice of lhs elements and an array x of rhs
\* elements: the lengths are equal, or x has one element, which is
\* repeated; any other pair raises ValueError
Assignable(lhs, rhs) == rhs = lhs \/ rhs = 1

\* the row of a column after a[r,:cnt] = x
PlaceRow(row, x, lhs, rhs) ==
  [b \in Slots |-> IF b <= lhs THEN (IF rhs = 1 THEN x[1] ELSE x[b]) ELSE row[b]]

(***************************************************************************)
(* State                                                                   *)
(***************************************************************************)
VARIABLES
  mph_in,     \* read_MPH: the header block handed to the parser
  mph_out,    \* read_MPH: its result, [err, fields], or NotCalled
  hdr_in,     \* read_SPH, read_DSD: the header handed to the parsers
  sph_out,    \* read_SPH: its result, [err, fields], or NotCalled
  dsd_out,    \* read_DSD: its result, [err, fields], or NotCalled
  call,       \* from_dbl, from_nc: the arguments [fn, file, unpack, field_dict]
  pc,         \* the position of the call
  err,        \* the exception that ended the call, "none" while there is none
  i_record_size,            \* from_dbl: the record size of the baseline
  read_cryosat_variables,   \* from_dbl: the decoder of the baseline
  st_size,                  \* from_dbl: the size of the file
  j_num_DSR,                \* from_dbl: the number of records to read
  headers,    \* from_dbl: the parsers called, their results, offset and size
  fid,        \* the offset of the open file, -1 while it is not open
  n_records,  \* the decoders: the number of records of the file
  r,          \* the decoders: the records read so far
  CS_l2_mds,  \* the dictionary group -> field -> column of the call
  GPS_Time,   \* the GPS time of every slot: [data, mask]
  leap_seconds,  \* the leap seconds of every slot: [data, mask]
  self,       \* the container: [fields, attrs]
  before,     \* the container as it was when the call began
  extent,     \* mosaic: self.extent, [xmin, xmax, ymin, ymax]
  tiles,      \* mosaic: the extents of the tiles passed to update_bounds
  D,          \* ATL06_crossovers: the tracks, after the filter on h_li
  different_cycles,  \* ATL06_crossovers: the argument
  delta_time_max,    \* ATL06_crossovers: the argument
  ii,         \* ATL06_crossovers: the index of the outer loop
  jj,         \* ATL06_crossovers: the index of the inner loop
  crossed,    \* ATL06_crossovers: the pairs handed to cross_tracks
  xover_list, \* ATL06_crossovers: the list of crossovers found
  xpc         \* ATL06_crossovers: the position, or the exception raised

mphVars == <<mph_in, mph_out>>
hdrVars == <<hdr_in, sph_out, dsd_out>>
callVars ==
  <<call, pc, err, i_record_size, read_cryosat_variables, st_size, j_num_DSR,
    headers, fid, n_records, r, CS_l2_mds, GPS_Time, leap_seconds, self>>
gridVars == <<extent, tiles>>
scriptVars == <<D, different_cycles, delta_time_max, ii, jj, crossed, xover_list, xpc>>
toolVars == <<gridVars, scriptVars>>
vars == <<mphVars, hdrVars, callVars, before, toolVars>>

NotCalled == [err |-> "not called", fields |-> EmptyDict]

(***************************************************************************)
(* mosaic: the extent of a mosaic of tiles.  An extent is the tuple        *)
(* [xmin, xmax, ymin, ymax], element k of the code at place k + 1.         *)
(***************************************************************************)
\* np.inf: a number above every coordinate
inf == 1000000

\* __init__: the extent of a mosaic without tiles
InitialExtent == <<inf, -inf, inf, -inf>>

\* mutant: the extent of the tile replaces that of the mosaic
update_bounds_replace(self_extent, temp_extent) == temp_extent

\* update_bounds: the four comparisons, each followed by its assignment
update_bounds(self_extent, temp_extent) ==
  << IF temp_extent[1] < self_extent[1] THEN temp_extent[1] ELSE self_extent[1],
     IF temp_extent[2] > self_extent[2] THEN temp_extent[2] ELSE self_extent[2],
     IF temp_extent[3] < self_extent[3] THEN temp_extent[3] ELSE self_extent[3],
     IF temp_extent[4] > self_extent[4] THEN temp_extent[4] ELSE self_extent[4] >>

\* the extents of the tiles handed to update_bounds: boxes of two corners
\* and two sizes, and a mosaic that holds no tile yet
TileExtents ==
  {<<x, x + w, y, y + 1>> : x \in {-MaxCoord, 0}, w \in {1, MaxCoord}, y \in {0, 1}}
  \cup {InitialExtent}

(***************************************************************************)
(* ATL06_crossovers: the loop over the pairs of tracks.  A track is given  *)
(* by its size and by element 0 of its delta_time, rgt and cycle_number,   *)
(* which a track of size 0 does not have.                                  *)
(***************************************************************************)
Track(size, delta_time, rgt, cycle_number) ==
  [size |-> size, delta_time |-> delta_time, rgt |-> rgt, cycle_number |-> cycle_number]

\* a track the filter on h_li has left without a point
EmptyTrack == Track(0, 0, 0, 0)

Tracks ==
  {EmptyTrack, Track(1, 0, 1, 1),
   Track(2, 0, 1, 1), Track(2, 0, 2, 1), Track(2, 0, 2, 2), Track(2, 2, 3, 2)}

RECURSIVE TrackLists(_)
TrackLists(n) ==
  IF n = 0 THEN {<< >>}
  ELSE LET shorter == TrackLists(n - 1)
       IN  shorter \cup {Append(l, t) : l \in {s \in shorter : Len(s) = n - 1}, t \in Tracks}

abs(x) == IF x < 0 THEN -x ELSE x

\* no tile passed and no call of ATL06_crossovers
IdleTools ==
  /\ extent = InitialExtent
  /\ tiles = << >>
  /\ D = << >>
  /\ different_cycles = FALSE
  /\ delta_time_max = inf
  /\ ii = 0
  /\ jj = 0
  /\ crossed = << >>
  /\ xover_list = << >>
  /\ xpc = "idle"

(***************************************************************************)
(* Header blocks handed to read_MPH.  A block is a sequence of entries;    *)
(* an entry is a key/value line (key, value text, quoted or bare, trailing *)
(* whitespace), a spare line without '=', or a line given as its text.     *)
(***************************************************************************)
RECURSIVE Texts(_, _)
Texts(alphabet, n) ==
  IF n = 0 THEN {<< >>}
  ELSE LET shorter == Texts(alphabet, n - 1)
       IN  shorter \cup {Append(t, c) : t \in shorter, c \in alphabet}

Digit(n) == <<"0", "1", "2", "3", "4", "5", "6", "7", "8", "9">>[n + 1]

KV(key, quoted, text, trail) ==
  [kind |-> "kv", key |-> key, quoted |-> quoted, text |-> text, trail |-> trail]
Spare == [kind |-> "spare", key |-> << >>, quoted |-> FALSE, text |-> << >>, trail |-> <<" ">>]

\* a line given as the text the file holds
Raw(text) == [kind |-> "raw", key |-> << >>, quoted |-> FALSE, text |-> text, trail |-> << >>]

\* the line as written in the file
RenderLine(e) ==
  IF e.kind = "spare" THEN <<" ", " ">> \o e.trail
  ELSE IF e.kind = "raw" THEN e.text
  ELSE e.key \o <<"=">>
       \o (IF e.quoted THEN <<"\"">> \o e.text \o <<"\"">> ELSE e.text)
       \o e.trail

ProductEntry == KV(PRODUCT_prefix, TRUE, <<"C", "S">>, << >>)
BadFirstEntry == KV(PRODUCT_prefix, FALSE, <<"C", "S">>, << >>)
\* the fixed lines of a block: every tenth a spare, the others Fnn=+nn<s>
FillerEntry(i) ==
  IF i % 10 = 0 THEN Spare
  ELSE KV(<<"F", Digit(i \div 10), Digit(i % 10)>>, i % 3 = 0,
          <<"+", Digit(i % 10)>> \o (IF i % 2 = 0 THEN <<"<", "s", ">">> ELSE << >>),
          IF i % 4 = 0 THEN <<" ">> ELSE << >>)

VarKey == <<"K">>
Trails == {<< >>, <<" ">>, <<" ", "\t">>}
ValueAlphabet == {"a", " ", "=", "\""}
\* a bare value holds at most one double quote: it is not quote-delimited
BareTexts == {t \in Texts(ValueAlphabet, MaxText) : Cardinality(CharAt(t, "\"")) <= 1}
VarEntries ==
  {KV(VarKey, TRUE, t, w) : t \in Texts(ValueAlphabet, MaxText), w \in Trails}
  \cup {KV(VarKey, FALSE, t, w) : t \in BareTexts, w \in Trails}

\* lines K=<text>, the text with any number of '=' and double quotes
RawEntries == {Raw(VarKey \o <<"=">> \o t) : t \in Texts(ValueAlphabet, MaxText)}

\* an MPH block of n lines: its first line, entry v at line pos, fillers
Block(b) ==
  [i \in 1..b.n |-> IF i = 1 THEN b.first ELSE IF i = b.pos THEN b.v ELSE FillerEntry(i)]

BlockOf(first, n, pos, v) == [first |-> first, n |-> n, pos |-> pos, v |-> v]

MPHBlocks ==
  {BlockOf(ProductEntry, n_MPH_lines + 2, pos, v) :
     pos \in {2, n_MPH_lines}, v \in VarEntries \cup RawEntries}
  \cup {BlockOf(BadFirstEntry, n_MPH_lines + 2, 2, KV(VarKey, TRUE, <<"a">>, << >>))}
  \cup {BlockOf(ProductEntry, n, 2, KV(VarKey, TRUE, <<"a">>, << >>)) : n \in {0, 1, n_MPH_lines - 1}}

FileText(block) == Eager([i \in 1..Len(block) |-> RenderLine(block[i])])

(***************************************************************************)
(* Files.  A binary product is an optional ASCII header followed by        *)
(* records and padding bytes.  The header is written with lines of a       *)
(* fixed width; a record is written field by field in the layout of the    *)
(* baseline the product was made for.                                      *)
(***************************************************************************)
\* most records in a generated product
MaxRecords == 3
\* characters of a header line, the newline not counted
HeaderWidth == 32

Key_SPH_SIZE == <<"S", "P", "H", "_", "S", "I", "Z", "E">>
Key_ABS_ORBIT == <<"A", "B", "S", "_", "O", "R", "B", "I", "T">>
Key_ASCENDING_FLAG == <<"A", "S", "C", "E", "N", "D", "I", "N", "G", "_", "F", "L", "A", "G">>
Key_DS_TYPE == <<"D", "S", "_", "T", "Y", "P", "E">>
Key_FILENAME == <<"F", "I", "L", "E", "N", "A", "M", "E">>
Key_DS_OFFSET == <<"D", "S", "_", "O", "F", "F", "S", "E", "T">>
Key_DS_SIZE == <<"D", "S", "_", "S", "I", "Z", "E">>
Key_NUM_DSR == <<"N", "U", "M", "_", "D", "S", "R">>
Key_DSR_SIZE == <<"D", "S", "R", "_", "S", "I", "Z", "E">>
Key_SPH_DESCRIPTOR == <<"S", "P", "H", "_", "D", "E", "S", "C", "R", "I", "P", "T", "O", "R">>
Units_bytes == <<"<", "b", "y", "t", "e", "s", ">">>
Name_MDS == <<"S", "I", "R", "_", "S", "I", "N", "_", "L", "2">>
Name_Reference == <<"C", "O", "N", "S", "T", "A", "N", "T", "S", "_", "F", "I", "L", "E">>
Name_Unknown == <<"S", "I", "R", "_", "X", "X", "X", "_", "L", "2">>

\* n written with an explicit sign and w digits
Signed(n, w) ==
  <<IF n < 0 THEN "-" ELSE "+">>
  \o [k \in 1..w |-> Digit(((IF n < 0 THEN -n ELSE n) \div (10 ^ (w - k))) % 10)]

\* one Data Set Descriptor: eight lines
DSDEntries(d) ==
  << KV(DS_NAME_prefix, TRUE, d.name \o <<" ", " ">>, << >>),
     KV(Key_DS_TYPE, FALSE, <<"M">>, << >>),
     KV(Key_FILENAME, TRUE, <<"f">>, << >>),
     KV(Key_DS_OFFSET, FALSE, Signed(d.DS_OFFSET, 7) \o Units_bytes, << >>),
     KV(Key_DS_SIZE, FALSE, Signed(d.DSR_SIZE * d.NUM_DSR, 7) \o Units_bytes, << >>),
     KV(Key_NUM_DSR, FALSE, Signed(d.NUM_DSR, 5), << >>),
     KV(Key_DSR_SIZE, FALSE, Signed(d.DSR_SIZE, 5) \o Units_bytes, << >>),
     Spare >>

\* lines of the header before its Data Set Descriptors
n_lines_before_DSD == 45

\* the entries of a header h: 41 lines of MPH, a spare line, the SPH and
\* the descriptors h.dsd
HeaderEntries(h) ==
  [i \in 1..(n_lines_before_DSD + n_DSD_lines * Len(h.dsd)) |->
     IF i = 1 THEN h.first
     ELSE IF i = 5 THEN KV(Key_SPH_SIZE, FALSE, Signed(462, 7) \o Units_bytes, << >>)
     ELSE IF i = 7 THEN KV(Key_ABS_ORBIT, FALSE, Signed(h.ABS_ORBIT, 6), << >>)
     ELSE IF i <= n_MPH_lines THEN FillerEntry(i)
     ELSE IF i = n_MPH_lines + 1 THEN Spare
     ELSE IF i = n_MPH_lines + 2 THEN KV(Key_SPH_DESCRIPTOR, TRUE, <<"L", "2">>, << >>)
     ELSE IF i = n_MPH_lines + 3 THEN KV(Key_ASCENDING_FLAG, FALSE, h.ASCENDING_FLAG, << >>)
     ELSE IF i <= n_lines_before_DSD THEN FillerEntry(i)
     ELSE DSDEntries(h.dsd[((i - n_lines_before_DSD - 1) \div n_DSD_lines) + 1])
            [((i - n_lines_before_DSD - 1) % n_DSD_lines) + 1]]

\* a line padded with blanks to the width of the header
Padded(line) == [k \in 1..HeaderWidth |-> IF k <= Len(line) THEN line[k] ELSE " "]

NoHeader == [first |-> Spare, ABS_ORBIT |-> 0, ASCENDING_FLAG |-> << >>, dsd |-> << >>]

\* the text lines of the header of a file
HeaderLines(file) ==
  IF file.header = NoHeader THEN << >>
  ELSE LET entries == HeaderEntries(file.header)
       IN  Eager([i \in 1..Len(entries) |-> Padded(RenderLine(entries[i]))])

HeaderBytes(file) ==
  IF file.header = NoHeader THEN 0
  ELSE (n_lines_before_DSD + n_DSD_lines * Len(file.header.dsd)) * (HeaderWidth + 1)

(***************************************************************************)
(* The bytes of a product.  A record is described by the values of its     *)
(* time fields and of N_valid; every other field holds a value that tells  *)
(* its position in the layout.                                             *)
(***************************************************************************)
Layouts == [AB |-> cryosat_baseline_AB, C |-> cryosat_baseline_C]

\* byte i (from 1) of the w-byte big-endian two's complement form of v
ByteOf(v, w, i) ==
  IF w - i >= 4 THEN (IF v < 0 THEN 255 ELSE 0) ELSE (v \div (256 ^ (w - i))) % 256

\* microseconds between two sub-records
DeltaStep == 50000

\* the value a record p is written with in low-rate field k
LowValue(p, lay, k) ==
  LET fd == lay.low[k]
  IN  IF fd.g = "Data_1Hz" /\ fd.f \in {"Day", "Second", "Micsec", "N_valid"} THEN p[fd.f]
      ELSE IF fd.t \in {"i2", "i4"} /\ k % 2 = 0 THEN -k
      ELSE k

\* the value a record p is written with in high-rate field k of sub-record b
HighValue(p, lay, b, k) ==
  LET fd == lay.high[k]
  IN  IF fd.f = "D_time_mics" THEN p.dt0 + b * DeltaStep
      ELSE IF fd.t \in {"i2", "i4"} /\ k % 2 = 0 THEN -(10 * k + b)
      ELSE 10 * k + b

\* for every offset of a record, the field it lies in: high or low, the
\* index k of the field, the sub-record b and the byte i of the field
FieldAtOffset(lay) ==
  Eager([off \in 0..(RecordBytes(lay) - 1) |->
     IF off < lay.lowbytes
     THEN LET k == CHOOSE j \in 1..Len(lay.low) :
                     lay.lowoff[j] <= off /\ off < lay.lowoff[j] + Width(lay.low[j].t)
          IN  [high |-> FALSE, k |-> k, b |-> 0, i |-> off - lay.lowoff[k] + 1]
     ELSE LET o == (off - lay.lowbytes) % lay.highbytes
              k == CHOOSE j \in 1..Len(lay.high) :
                     lay.highoff[j] <= o /\ o < lay.highoff[j] + Width(lay.high[j].t)
          IN  [high |-> TRUE, k |-> k, b |-> (off - lay.lowbytes) \div lay.highbytes,
               i |-> o - lay.highoff[k] + 1]])

FieldAt == [AB |-> FieldAtOffset(cryosat_baseline_AB), C |-> FieldAtOffset(cryosat_baseline_C)]

\* the byte at offset off of a record p written in the layout named w
RecordByte(p, w, off) ==
  LET at == FieldAt[w][off]
      lay == Layouts[w]
  IN  IF at.high
      THEN ByteOf(HighValue(p, lay, at.b, at.k), Width(lay.high[at.k].t), at.i)
      ELSE ByteOf(LowValue(p, lay, at.k), Width(lay.low[at.k].t), at.i)

PayloadBytes(file) == Len(file.recs) * RecordBytes(Layouts[file.written])

\* os.fstat(fid).st_size
FileSize(file) == HeaderBytes(file) + PayloadBytes(file) + file.pad

\* the byte of the file at offset o < FileSize(file): header text with a
\* newline after every line, then the records, then padding zeros
FileByte(file, lines, o) ==
  IF o < HeaderBytes(file)
  THEN IF o % (HeaderWidth + 1) = HeaderWidth THEN 10
       ELSE Ord(lines[(o \div (HeaderWidth + 1)) + 1][(o % (HeaderWidth + 1)) + 1])
  ELSE IF o < HeaderBytes(file) + PayloadBytes(file)
  THEN LET q == o - HeaderBytes(file)
           rb == RecordBytes(Layouts[file.written])
       IN  RecordByte(file.recs[(q \div rb) + 1], file.written, q % rb)
  ELSE 0

\* a line of bytes that are no characters: what splitlines makes of binary
\* records (their bytes are taken to hold no newline and no printable line)
BinaryLine == <<"\f">>

\* fid.read().splitlines() of the whole file
FileContents(file) ==
  HeaderLines(file) \o (IF PayloadBytes(file) + file.pad > 0 THEN <<BinaryLine>> ELSE << >>)

(***************************************************************************)
(* The products and calls of the model                                     *)
(***************************************************************************)
Rec(Day, Second, Micsec, N_valid, dt0) ==
  [Day |-> Day, Second |-> Second, Micsec |-> Micsec, N_valid |-> N_valid, dt0 |-> dt0]

\* the records products are made of: in-range and out-of-range counts of
\* valid sub-records, instants at and around an entry of the leap table,
\* a microsecond sum beyond int32 and a second beyond 2^24
Profiles ==
  << Rec(1, 10, 0, 20, 0),
     Rec(2192, 32, 0, 5, 0),
     Rec(2192, 31, 999999, 21, 0),
     Rec(4000, 86399, 750000, -1, 300000),
     Rec(3500, 100, MaxInt32, 20, 1),
     Rec(100, 16777217, 5, -21, 0),
     Rec(0, 0, 0, -32768, 0) >>

\* n records, the first being profile j
Payload(j, n) == [i \in 1..n |-> Profiles[((j + i - 2) % Len(Profiles)) + 1]]

File(tail, written, header, recs, pad) ==
  [kind |-> "dbl", tail |-> tail, written |-> written, header |-> header,
   recs |-> recs, pad |-> pad]

Tail_A == <<"A", "0", "0", "1">>
Tail_B == <<"B", "0", "0", "1">>
Tail_C == <<"C", "0", "0", "1">>
Tail_none == <<"B">>

\* the baselines products are made for: the end of the file name and the
\* layout of the records
Made == {<<Tail_B, "AB">>, <<Tail_C, "C">>}

Descriptor(name, DS_OFFSET, NUM_DSR, DSR_SIZE) ==
  [name |-> name, DS_OFFSET |-> DS_OFFSET, NUM_DSR |-> NUM_DSR, DSR_SIZE |-> DSR_SIZE]

Header(first, flag, dsd) ==
  [first |-> first, ABS_ORBIT |-> 5399, ASCENDING_FLAG |-> flag, dsd |-> dsd]

\* bytes of a header with m descriptors
HeaderBytesFor(m) == (n_lines_before_DSD + n_DSD_lines * m) * (HeaderWidth + 1)

\* a product with a header whose first descriptor holds the given numbers,
\* relative to the true offset, count and size of its records
WithHeader(made, recs, pad, first, flag, name, dOffset, dNum, dSize, refs) ==
  LET main == Descriptor(name, HeaderBytesFor(1 + refs) + dOffset, Len(recs) + dNum,
                  RecordBytes(Layouts[made[2]]) + dSize)
      ref == Descriptor(Name_Reference, 0, 0, 0)
  IN  File(made[1], made[2],
           Header(first, flag, <<main>> \o [i \in 1..refs |-> ref]), recs, pad)

\* padding that makes the size of a product a multiple of its record size
PadToMultiple(made, recs, refs) ==
  LET rb == RecordBytes(Layouts[made[2]])
  IN  (rb - ((HeaderBytesFor(1 + refs) + Len(recs) * rb) % rb)) % rb

Headerless ==
  {File(made[1], made[2], NoHeader, Payload(j, n), 0) :
     made \in Made, j \in 1..Len(Profiles), n \in 0..MaxRecords}

Consistent ==
  {WithHeader(made, Payload(j, n), 0, ProductEntry, flag, Name_MDS, 0, 0, 0, refs) :
     made \in Made, j \in {1, 2, 4}, n \in {1, MaxRecords},
     flag \in {<<"A">>, <<"D">>}, refs \in {0, 1}}

\* descriptors that disagree with the file: (offset, count, size) relative
\* to the truth
Disagreeing ==
  {WithHeader(made, Payload(1, 2), pad, ProductEntry, <<"A">>, Name_MDS, d[1], d[2], d[3], 0) :
     made \in Made, pad \in {0, 7},
     d \in {<<0, 1, 0>>, <<1, 0, 0>>, <<0, 0, 1>>, <<8, 0, 0>>, <<0, -1, 0>>,
            <<-33, 0, 0>>, <<0, 1, -500>>, <<0, -2, 0>>}}

Malformed ==
  {WithHeader(made, Payload(1, 1), 0, BadFirstEntry, <<"A">>, Name_MDS, 0, 0, 0, 0) : made \in Made}
  \cup {WithHeader(made, Payload(1, 1), 0, ProductEntry, <<"A">>, Name_Unknown, 0, 0, 0, 0) : made \in Made}
  \cup {File(Tail_B, "AB", NoHeader, Payload(1, 1), 5),
        File(Tail_C, "AB", NoHeader, Payload(1, MaxRecords), 0),
        File(Tail_C, "AB", NoHeader, Payload(1, 1), 0),
        File(Tail_A, "C", NoHeader, Payload(1, 1), 0),
        File(Tail_none, "AB", NoHeader, Payload(1, 1), 0)}

\* a header is there, and the size is a multiple of the record size
HeaderUnseen ==
  {WithHeader(made, Payload(1, 1), PadToMultiple(made, Payload(1, 1), 0),
              ProductEntry, <<"A">>, Name_MDS, 0, 0, 0, 0) : made \in Made}

\* the descriptor counts three records of a size the check of the size
\* accepts, and the file ends in the third record: after its first field,
\* and one byte before its end
CutShort ==
  {WithHeader(made, Payload(1, 2), IF late THEN RecordBytes(Layouts[made[2]]) - 1 ELSE 4,
              ProductEntry, <<"A">>, Name_MDS, 0, 1, -500, 0) :
     made \in Made, late \in BOOLEAN}

BinaryFiles ==
  Headerless \cup Consistent \cup Disagreeing \cup Malformed \cup HeaderUnseen \cup CutShort

(***************************************************************************)
(* netCDF4 products.  A product holds the time of every record, the index  *)
(* of its first sample and the number of its samples, n_20 samples in      *)
(* every flat variable, the set of variables that carry a scale factor     *)
(* and the set of global attributes it lacks.  The samples of time_20_ku   *)
(* are DeltaStep microseconds apart from time t0; a sample of another      *)
(* variable tells the variable and its index.                              *)
(***************************************************************************)
Time(sec, u) == [sec |-> sec, u |-> u]

\* the times of the records of a product whose first sample is at base
\* seconds and 900000 microseconds
RecordTimes(pairs, base) == [i \in 1..Len(pairs) |-> Time(base + i, 250000 * (i % 4))]

\* the first samples of the products: in 2010, and before 2000
Bases == {345686399, -86403}

NCFile(tail, base, pairs, n_20, packed, absent) ==
  [kind |-> "nc", tail |-> tail, time_cor_01 |-> RecordTimes(pairs, base),
   ind_first_meas_20hz_01 |-> [i \in 1..Len(pairs) |-> pairs[i][1]],
   num_valid_01 |-> [i \in 1..Len(pairs) |-> pairs[i][2]],
   n_20 |-> n_20, t0 |-> Time(base, 900000), packed |-> packed, absent |-> absent,
   abs_orbit_number |-> 5399, ascending_flag |-> "A"]

Tail_D == <<"D", "0", "0", "1">>

\* element i (from 0) of time_20_ku
time_20_ku(file, i) ==
  LET m == file.t0.u + i * DeltaStep
  IN  Time(file.t0.sec + (m \div MicrosPerSecond), m % MicrosPerSecond)

\* element i (from 0) of the flat variable of high-rate field k
FlatValue(file, k, i) ==
  IF D_HighRate[k].v = "time_20_ku" THEN time_20_ku(file, i) ELSE 1000 * k + i

\* element i (from 1) of the variable of low-rate field k
LowVariable(file, k, i) ==
  IF D_LowRate[k].v = "num_valid_01" THEN file.num_valid_01[i] ELSE 100 * k + i

\* (index, count) of every record, and the samples of the flat variables
Ragged ==
  { [pairs |-> << <<0, 3>>, <<3, 4>> >>, n_20 |-> 7],
    [pairs |-> << <<0, 20>>, <<20, 2>>, <<22, 0>> >>, n_20 |-> 22],
    [pairs |-> << >>, n_20 |-> 0],
    [pairs |-> << <<0, 1>> >>, n_20 |-> 1],
    [pairs |-> << <<0, 21>>, <<21, 4>> >>, n_20 |-> 25],
    [pairs |-> << <<0, 3>>, <<3, 21>> >>, n_20 |-> 24],
    [pairs |-> << <<0, 3>>, <<3, 4>> >>, n_20 |-> 5],
    [pairs |-> << <<0, 3>>, <<3, 4>> >>, n_20 |-> 4],
    [pairs |-> << <<0, -1>> >>, n_20 |-> 20],
    [pairs |-> << <<2, -1>> >>, n_20 |-> 5],
    [pairs |-> << <<4, 2>>, <<0, 4>> >>, n_20 |-> 6] }

NCFiles ==
  {NCFile(Tail_D, base, g.pairs, g.n_20, packed, {}) :
     g \in Ragged, base \in Bases, packed \in {{}, {"lat_poca_20_ku", "lat_01"}}}
  \cup {NCFile(tail, 345686399, << <<0, 3>>, <<3, 4>> >>, 7,
               {}, absent) :
          tail \in {Tail_D, Tail_none},
          absent \in {{"xref_dem"}, {"xref_dem", "xref_sea_ice", "xref_snow_depth"}, {"doi"},
                      {"abs_orbit_number"}, {"ascending_flag"}, {"xref_odle", "xref_dem"}}}

(***************************************************************************)
(* The names of the products.  A name is written from its parts: mission   *)
(* identifier, file class, product, separator, start and stop of validity, *)
(* and the end of the name, baseline and version, which the product        *)
(* carries.                                                                *)
(***************************************************************************)
\* the base name of the file of a call
fileBasename(n, tail) ==
  n.mi \o <<"_">> \o n.class \o <<"_">> \o n.product \o n.sep \o n.start
       \o <<"_">> \o n.stop \o n.join \o tail

GoodName ==
  [mi |-> <<"C", "S">>, class |-> <<"O", "F", "F", "L">>, product |-> <<"S", "I", "R", "_", "S", "I", "N", "_", "2">>, sep |-> <<"_", "_">>,
     start |-> <<"2", "0", "1", "0", "0", "1", "0", "1", "T", "0", "0", "0", "0", "0", "0">>, stop |-> <<"2", "0", "1", "0", "0", "1", "0", "1", "T", "0", "0", "0", "1", "0", "0">>, join |-> <<"_">>]

\* other names the pattern accepts: the class LTA_, a product of the
\* in-depth kind, times without T, and a name that holds the pattern twice
OtherNames ==
  { [mi |-> <<"C", "S">>, class |-> <<"L", "T", "A", "_">>, product |-> <<"S", "I", "R", "_", "G", "D", "R", "_", "2">>, sep |-> <<"_", "_">>,
     start |-> <<"2", "0", "1", "0", "0", "1", "0", "1", "T", "0", "0", "0", "0", "0", "0">>, stop |-> <<"2", "0", "1", "0", "0", "1", "0", "1", "T", "0", "0", "0", "1", "0", "0">>, join |-> <<"_">>],
    [mi |-> <<"C", "S">>, class |-> <<"N", "R", "T", "_">>, product |-> <<"S", "I", "R", "_", "L", "R", "M", "I", "2">>, sep |-> <<"_", "_">>,
     start |-> <<"2", "0", "1", "0">>, stop |-> <<"2", "0">>, join |-> <<"_">>],
    [mi |-> <<"C", "S", "_", "T", "E", "S", "T", "_", "S", "I", "R", "_", "S", "A", "R", "_", "2", "_", "_", "1", "T", "2", "_", "3", "T", "4", "_", "C", "9", "_", "C", "S">>, class |-> <<"O", "F", "F", "L">>, product |-> <<"S", "I", "R", "_", "S", "I", "N", "_", "2">>, sep |-> <<"_", "_">>,
     start |-> <<"2", "0", "1", "0", "0", "1", "0", "1", "T", "0", "0", "0", "0", "0", "0">>, stop |-> <<"2", "0", "1", "0", "0", "1", "0", "1", "T", "0", "0", "0", "1", "0", "0">>, join |-> <<"_">>] }

\* names the pattern does not accept: a class and a product outside the
\* lists, one underscore before the start, a start and a stop that are no
\* times, no underscore before the baseline, a class in small letters
BadNames ==
  { [mi |-> <<"C", "S">>, class |-> <<"X", "X", "X", "X">>, product |-> <<"S", "I", "R", "_", "S", "I", "N", "_", "2">>, sep |-> <<"_", "_">>,
     start |-> <<"2", "0", "1", "0", "0", "1", "0", "1", "T", "0", "0", "0", "0", "0", "0">>, stop |-> <<"2", "0", "1", "0", "0", "1", "0", "1", "T", "0", "0", "0", "1", "0", "0">>, join |-> <<"_">>],
    [mi |-> <<"C", "S">>, class |-> <<"O", "F", "F", "L">>, product |-> <<"S", "I", "R", "_", "S", "I", "N", "_", "3">>, sep |-> <<"_", "_">>,
     start |-> <<"2", "0", "1", "0", "0", "1", "0", "1", "T", "0", "0", "0", "0", "0", "0">>, stop |-> <<"2", "0", "1", "0", "0", "1", "0", "1", "T", "0", "0", "0", "1", "0", "0">>, join |-> <<"_">>],
    [mi |-> <<"C", "S">>, class |-> <<"O", "F", "F", "L">>, product |-> <<"S", "I", "R", "_", "S", "I", "N", "_", "2">>, sep |-> <<"_">>,
     start |-> <<"2", "0", "1", "0", "0", "1", "0", "1", "T", "0", "0", "0", "0", "0", "0">>, stop |-> <<"2", "0", "1", "0", "0", "1", "0", "1", "T", "0", "0", "0", "1", "0", "0">>, join |-> <<"_">>],
    [mi |-> <<"C", "S">>, class |-> <<"O", "F", "F", "L">>, product |-> <<"S", "I", "R", "_", "S", "I", "N", "_", "2">>, sep |-> <<"_", "_">>,
     start |-> <<"T", "0", "0", "0", "0", "0", "0">>, stop |-> <<"2", "0", "1", "0", "0", "1", "0", "1", "T", "0", "0", "0", "1", "0", "0">>, join |-> <<"_">>],
    [mi |-> <<"C", "S">>, class |-> <<"O", "F", "F", "L">>, product |-> <<"S", "I", "R", "_", "S", "I", "N", "_", "2">>, sep |-> <<"_", "_">>,
     start |-> <<"2", "0", "1", "0", "0", "1", "0", "1", "T", "0", "0", "0", "0", "0", "0">>, stop |-> <<"2">>, join |-> <<"_">>],
    [mi |-> <<"C", "S">>, class |-> <<"O", "F", "F", "L">>, product |-> <<"S", "I", "R", "_", "S", "I", "N", "_", "2">>, sep |-> <<"_", "_">>,
     start |-> <<"2", "0", "1", "0", "0", "1", "0", "1", "T", "0", "0", "0", "0", "0", "0">>, stop |-> <<"2", "0", "1", "0", "0", "1", "0", "1", "T", "0", "0", "0", "1", "0", "0">>, join |-> <<>>],
    [mi |-> <<"C", "S">>, class |-> <<"o", "f", "f", "l">>, product |-> <<"S", "I", "R", "_", "S", "I", "N", "_", "2">>, sep |-> <<"_", "_">>,
     start |-> <<"2", "0", "1", "0", "0", "1", "0", "1", "T", "0", "0", "0", "0", "0", "0">>, stop |-> <<"2", "0", "1", "0", "0", "1", "0", "1", "T", "0", "0", "0", "1", "0", "0">>, join |-> <<"_">>],
    [mi |-> <<"C", "S">>, class |-> <<"O", "F", "F", "L">>, product |-> <<"S", "I", "R", "_", "S", "I", "N", "_", "2">>, sep |-> <<"_", "_">>,
     start |-> <<"2", "0", "1", "0", "T">>, stop |-> <<"2", "0", "1", "0", "0", "1", "0", "1", "T", "0", "0", "0", "1", "0", "0">>, join |-> <<"_">>] }

(***************************************************************************)
(* Headers handed to read_SPH and read_DSD.  A header is the 41 lines of   *)
(* the MPH, the line that follows them, and the items of the SPH: a single *)
(* line, or a DS_NAME line with the lines that belong to it.               *)
(***************************************************************************)
Line(e) == [kind |-> "line", e |-> e, members |-> << >>]
Group(e, members) == [kind |-> "group", e |-> e, members |-> members]

\* a key/value line that ends in a tab: a byte outside 0x20..0x7e
Noise(key, text) == KV(key, FALSE, text, <<"\t">>)

NameLine(quoted, name, pad) == KV(DS_NAME_prefix, quoted, name \o pad, << >>)

Key_K == <<"K">>
Key_G == <<"G">>
Key_XDS_NAME == <<"X", "D", "S", "_", "N", "A", "M", "E">>
Name_LRM == <<"S", "I", "R", "_", "L", "R", "M", "_", "L", "2">>
Name_Longer == <<"S", "I", "R", "_", "S", "I", "N", "_", "L", "2", "X">>

DescriptorEntry == KV(Key_SPH_DESCRIPTOR, TRUE, <<"L", "2">>, << >>)
FlagEntry(f) == KV(Key_ASCENDING_FLAG, FALSE, f, << >>)
TypeEntry == KV(Key_DS_TYPE, FALSE, <<"M">>, << >>)
FilenameEntry(t) == KV(Key_FILENAME, TRUE, t, <<" ">>)
OffsetEntry == KV(Key_DS_OFFSET, FALSE, Signed(1485, 7) \o Units_bytes, << >>)
SizeEntry == KV(Key_DS_SIZE, FALSE, Signed(980, 7) \o Units_bytes, << >>)
NumEntry == KV(Key_NUM_DSR, FALSE, Signed(1, 5), <<" ">>)
DSRSizeEntry == KV(Key_DSR_SIZE, FALSE, Signed(980, 5) \o Units_bytes, << >>)

\* the lines that belong to a DS_NAME line, six of them key/value lines:
\* as the products are written, with a spare and a noisy line in between,
\* ending in the DS_NAME line of a second descriptor, and holding a key
\* that is also a key of the SPH
Members_written ==
  <<TypeEntry, FilenameEntry(<<"f">>), OffsetEntry, SizeEntry, NumEntry, DSRSizeEntry, Spare>>
Members_broken ==
  <<TypeEntry, Spare, FilenameEntry(<<"f">>), Noise(Key_K, <<"n">>), OffsetEntry, SizeEntry,
    NumEntry, DSRSizeEntry>>
Members_short ==
  <<TypeEntry, FilenameEntry(<<"f">>), OffsetEntry, SizeEntry, NumEntry,
    NameLine(TRUE, Name_Reference, << >>)>>
Members_flag ==
  <<TypeEntry, FlagEntry(<<"D">>), OffsetEntry, SizeEntry, NumEntry, DSRSizeEntry, Spare>>
\* the file ends in the descriptor
Members_cut == <<TypeEntry, FilenameEntry(<<"f">>), OffsetEntry>>

Pad_two == <<" ", " ">>
Pad_plus == <<"+", " ">>

\* the items of an SPH
Bodies ==
  { << Line(DescriptorEntry), Line(FlagEntry(<<"A">>)),
       Group(NameLine(TRUE, Name_MDS, Pad_two), Members_written),
       Line(KV(Key_K, TRUE, <<"a">>, << >>)) >>,
    << Line(DescriptorEntry), Line(FlagEntry(<<"A">>)),
       Group(NameLine(TRUE, Name_Reference, Pad_two), Members_broken),
       Group(NameLine(TRUE, Name_MDS, Pad_two), Members_written) >>,
    << Line(DescriptorEntry),
       Group(NameLine(TRUE, Name_MDS, << >>), Members_short),
       Line(FilenameEntry(<<"g">>)), Line(Spare), Line(FlagEntry(<<"D">>)),
       Line(KV(Key_K, FALSE, <<"b">>, <<" ">>)) >>,
    << Line(DescriptorEntry), Line(FlagEntry(<<"A">>)),
       Group(NameLine(TRUE, Name_MDS, Pad_plus), Members_flag),
       Line(KV(Key_DS_TYPE, FALSE, <<"T">>, << >>)) >>,
    << Line(DescriptorEntry), Line(FlagEntry(<<"A">>)),
       Group(NameLine(TRUE, Name_MDS, Pad_two), Members_cut) >>,
    << Line(DescriptorEntry) >>,
    << >>,
    << Line(FlagEntry(<<"A">>)), Line(DescriptorEntry) >>,
    << Line(DescriptorEntry),
       Group(NameLine(FALSE, Name_MDS, << >>), Members_written) >>,
    << Line(DescriptorEntry), Line(FlagEntry(<<"A">>)),
       Group(NameLine(TRUE, Name_Unknown, Pad_two), Members_written) >>,
    << Line(DescriptorEntry),
       Group(NameLine(TRUE, Name_Longer, << >>), Members_written),
       Group(NameLine(TRUE, Name_Reference, << >>), Members_written) >>,
    << Line(DescriptorEntry),
       Line(KV(Key_XDS_NAME, TRUE, Name_MDS, << >>)),
       Line(TypeEntry), Line(FilenameEntry(<<"f">>)), Line(OffsetEntry), Line(SizeEntry),
       Line(NumEntry), Line(DSRSizeEntry), Line(Spare) >>,
    << Line(DescriptorEntry),
       Group(NameLine(TRUE, Name_MDS, Pad_two), Members_written),
       Group(NameLine(TRUE, Name_LRM, Pad_two), Members_flag) >>,
    << Line(DescriptorEntry),
       Group(NameLine(TRUE, Name_LRM, << >>), Members_broken),
       Group(NameLine(TRUE, Name_MDS, Pad_two), Members_written) >>,
    << Line(Noise(Key_K, <<"n">>)), Line(DescriptorEntry), Line(FlagEntry(<<"A">>)) >>,
    << Line(Spare), Line(DescriptorEntry), Line(FlagEntry(<<"A">>)) >> }

NoLine == [kind |-> "none", key |-> << >>, quoted |-> FALSE, text |-> << >>, trail |-> << >>]

\* the line that follows the MPH
Gaps ==
  {Spare, KV(Key_G, FALSE, <<"1">>, << >>), DescriptorEntry, NameLine(TRUE, Name_MDS, Pad_two)}

HeaderOf(n, gap, items) == [n |-> n, gap |-> gap, items |-> items]

Headers ==
  {HeaderOf(n_MPH_lines, gap, items) : gap \in Gaps, items \in Bodies}
  \cup {HeaderOf(n_MPH_lines, NoLine, << >>), HeaderOf(n_MPH_lines - 1, NoLine, << >>),
        HeaderOf(0, NoLine, << >>)}

IdleHeader == HeaderOf(0, NoLine, << >>)

\* the entries of the items, in the order of the file
RECURSIVE ItemEntries(_)
ItemEntries(items) ==
  IF items = << >> THEN << >>
  ELSE (IF items[1].kind = "line" THEN <<items[1].e>>
        ELSE <<items[1].e>> \o items[1].members)
       \o ItemEntries(Tail(items))

\* the lines of the file a header is the start of
HeaderText(h) ==
  FileText([i \in 1..h.n |-> IF i = 1 THEN ProductEntry ELSE FillerEntry(i)]
           \o (IF h.gap = NoLine THEN << >> ELSE <<h.gap>>)
           \o ItemEntries(h.items))

(***************************************************************************)
(* from_dbl, step by step                                                  *)
(***************************************************************************)
NoHeaders ==
  [called |-> << >>, MPH |-> EmptyDict, SPH |-> EmptyDict, DSD |-> EmptyDict,
   j_DS_start |-> 0, j_DSR_size |-> 0]
NoTimes == [data |-> << >>, mask |-> << >>]
NoColumns == [g \in {} |-> EmptyDict]
EmptyContainer == [fields |-> << >>, attrs |-> EmptyDict]

\* the call ends with exception e
Raise(e) == pc' = "error" /\ err' = e

\* Record sizes
CS_L2_MDS_REC_SIZE == 980
CS_L2_C_MDS_REC_SIZE == 1392

\* lines 66-111: the file name is parsed (no match leaves nothing to pop),
\* the record size and the decoder are chosen from the baseline
ParseName ==
  /\ pc = "start" /\ call.fn = "from_dbl"
  /\ LET name == findall_pop(fileBasename(call.name, call.file.tail), 1, NoMatch)
     IN  IF ~name.ok
         THEN Raise("IndexError") /\ UNCHANGED <<i_record_size, read_cryosat_variables>>
         ELSE /\ pc' = "stat"
              /\ i_record_size' =
                   IF name.BASELINE = <<"C">> THEN CS_L2_C_MDS_REC_SIZE ELSE CS_L2_MDS_REC_SIZE
              /\ read_cryosat_variables' =
                   IF name.BASELINE = <<"C">> THEN "cryosat_baseline_C" ELSE "cryosat_baseline_AB"
              /\ err' = err
  /\ UNCHANGED <<mphVars, hdrVars, toolVars, before, n_records, call, st_size, j_num_DSR, headers, fid, r, CS_l2_mds,
                 GPS_Time, leap_seconds, self>>

\* mutant: a file shorter than one record is taken to have no header
HasHeader_whole_records(size, record_size) ==
  size >= record_size /\ (size \div record_size) * record_size # size

\* line 132: j_num_DSR*i_record_size != file_info.st_size, j_num_DSR being
\* the number of whole records in the file
HasHeader(size, record_size) == (size \div record_size) * record_size # size

\* lines 113-132: the size of the file, the number of whole records in it,
\* and the decision whether headers are parsed
Stat ==
  /\ pc = "stat"
  /\ st_size' = FileSize(call.file)
  /\ j_num_DSR' = FileSize(call.file) \div i_record_size
  /\ pc' = IF HasHeader(FileSize(call.file), i_record_size) THEN "headers" ELSE "open"
  /\ UNCHANGED <<mphVars, hdrVars, toolVars, before, n_records, call, err, i_record_size, read_cryosat_variables, headers,
                 fid, r, CS_l2_mds, GPS_Time, leap_seconds, self>>

\* np.int32 of the last integer of the text of field key of a dictionary:
\* KeyError without the key, IndexError without an integer in its text
IntField(fields, key) ==
  IF key \notin DOMAIN fields THEN [err |-> "KeyError", value |-> 0]
  ELSE IF ~LastInt(fields[key]).ok THEN [err |-> "IndexError", value |-> 0]
  ELSE [err |-> "none", value |-> LastInt(fields[key]).value]

HeaderResult(e, called, MPH, SPH, DSD, start, num, size) ==
  [err |-> e, called |-> called, MPH |-> MPH, SPH |-> SPH, DSD |-> DSD,
   j_DS_start |-> start, j_num_DSR |-> num, j_DSR_size |-> size]

\* mutant: the size check accepts a payload one record too long
CheckSize_lenient(j_DS_start, j_DSR_size, num, size) ==
  j_DS_start + (j_DSR_size * (num - 1)) > size

\* lines 146-152: j_check_size > file_info.st_size
CheckSize(j_DS_start, j_DSR_size, num, size) ==
  j_DS_start + (j_DSR_size * num) > size

\* lines 134-153: the three parsers in turn, the integers of the first
\* matching descriptor and the check of the size; the first failure ends
\* it.  Each operator below is the rest of the branch after one call.
CheckedHeaders(s_MPH, s_SPH, s_DSD, j_DS_start, num, j_DSR_size, size) ==
  HeaderResult(IF j_DS_start.err # "none" THEN j_DS_start.err
               ELSE IF num.err # "none" THEN num.err
               ELSE IF j_DSR_size.err # "none" THEN j_DSR_size.err
               ELSE IF CheckSize(j_DS_start.value, j_DSR_size.value, num.value, size)
                 THEN "IOError"
               ELSE "none",
               <<"read_MPH", "read_SPH", "read_DSD">>, s_MPH.fields, s_SPH.fields,
               s_DSD.fields, j_DS_start.value, num.value, j_DSR_size.value)

AfterDSD(s_MPH, s_SPH, s_DSD, size) ==
  IF s_DSD.err # "none"
  THEN HeaderResult(s_DSD.err, <<"read_MPH", "read_SPH", "read_DSD">>, s_MPH.fields,
                    s_SPH.fields, EmptyDict, 0, 0, 0)
  ELSE CheckedHeaders(s_MPH, s_SPH, s_DSD, IntField(s_DSD.fields, Key_DS_OFFSET),
                      IntField(s_DSD.fields, Key_NUM_DSR),
                      IntField(s_DSD.fields, Key_DSR_SIZE), size)

AfterSPH(file_contents, s_MPH, s_SPH, size) ==
  IF s_SPH.err # "none"
  THEN HeaderResult(s_SPH.err, <<"read_MPH", "read_SPH">>, s_MPH.fields, EmptyDict,
                    EmptyDict, 0, 0, 0)
  ELSE AfterDSD(s_MPH, s_SPH, read_DSD(file_contents), size)

AfterSPHSize(file_contents, s_MPH, j_sph_size, size) ==
  IF j_sph_size.err # "none"
  THEN HeaderResult(j_sph_size.err, <<"read_MPH">>, s_MPH.fields, EmptyDict, EmptyDict, 0, 0, 0)
  ELSE AfterSPH(file_contents, s_MPH, read_SPH(file_contents, j_sph_size.value), size)

AfterMPH(file_contents, s_MPH, size) ==
  IF s_MPH.err # "none"
  THEN HeaderResult(s_MPH.err, <<"read_MPH">>, EmptyDict, EmptyDict, EmptyDict, 0, 0, 0)
  ELSE AfterSPHSize(file_contents, s_MPH, IntField(s_MPH.fields, Key_SPH_SIZE), size)

ParseHeaders(file_contents, size) == AfterMPH(file_contents, read_MPH(file_contents), size)

\* the state after the header branch, res being the result of its parsers
ReadHeadersTo(res) ==
  /\ headers' = [called |-> res.called, MPH |-> res.MPH, SPH |-> res.SPH,
                 DSD |-> res.DSD, j_DS_start |-> res.j_DS_start,
                 j_DSR_size |-> res.j_DSR_size]
  /\ IF res.err # "none"
     THEN Raise(res.err) /\ UNCHANGED j_num_DSR
     ELSE pc' = "open" /\ j_num_DSR' = res.j_num_DSR /\ err' = err

\* lines 132-153: the branch taken when the size is no multiple of the
\* record size
ReadHeaders ==
  /\ pc = "headers"
  /\ ReadHeadersTo(ParseHeaders(FileContents(call.file), st_size))
  /\ UNCHANGED <<mphVars, hdrVars, toolVars, before, n_records, call, i_record_size, read_cryosat_variables, st_size,
                 fid, r, CS_l2_mds, GPS_Time, leap_seconds, self>>

\* lines 155-158 and 176-178, and the allocations of the decoder: the file
\* is opened, the header bytes are read over and the columns are allocated
OpenFile ==
  /\ pc = "open"
  /\ fid' = Min(headers.j_DS_start, st_size)
  /\ r' = 0
  /\ n_records' = j_num_DSR
  /\ CS_l2_mds' = Allocate(Layouts[IF read_cryosat_variables = "cryosat_baseline_C"
                                   THEN "C" ELSE "AB"], j_num_DSR)
  /\ pc' = "read"
  /\ UNCHANGED <<mphVars, hdrVars, toolVars, before, call, err, i_record_size, read_cryosat_variables, st_size,
                 j_num_DSR, headers, GPS_Time, leap_seconds, self>>

\* the layout of the decoder chosen from the baseline
DecoderLayout == Layouts[IF read_cryosat_variables = "cryosat_baseline_C" THEN "C" ELSE "AB"]

\* One iteration of the record loop of a decoder: record rec is read from the
\* bytes of the file that follow offset `start`; every low-rate field, then
\* every field of each of the 20 sub-records, then the masks of row rec
\* from the N_valid just read.
ReadOneRecord(mds, lay, file, lines, start, rec) ==
  LET read(off, t) == FromBytes([k \in 1..Width(t) |-> FileByte(file, lines, start + off + k - 1)], t)
      low(g, f) == LET k == lay.lowidx[<<g, f>>] IN read(LowOffset(lay, k), lay.low[k].t)
      high(f, b) == LET k == lay.highidx[f] IN read(HighOffset(lay, b - 1, k), lay.high[k].t)
      nv == low("Data_1Hz", "N_valid")
  IN  [g \in DOMAIN mds |->
         IF g = "Data_20Hz"
         THEN [f \in DOMAIN mds[g] |->
                 [mds[g][f] EXCEPT !.data[rec] = [b \in Slots |-> high(f, b)],
                                   !.mask[rec] = MaskRow(@, nv)]]
         ELSE [f \in DOMAIN mds[g] |-> [mds[g][f] EXCEPT !.data[rec] = low(g, f)]]]

\* mutant: a read is short only at the very end of the file
ShortRead_at_end(pos, bytes, size) == pos >= size

\* np.fromfile(fid, dtype, count=1) for the fields of a record of `bytes`
\* bytes read from position pos of a file of `size` bytes: the read of the
\* first field whose bytes are not all in the file returns no element
ShortRead(pos, bytes, size) == pos + bytes > size

\* one pass of the record loop: a read that the file cannot serve returns
\* nothing and the assignment of nothing to an element raises ValueError
ReadRecord ==
  /\ pc = "read" /\ r < n_records
  /\ IF ShortRead(fid, RecordBytes(DecoderLayout), st_size)
     THEN Raise("ValueError") /\ UNCHANGED <<fid, r, CS_l2_mds>>
     ELSE /\ CS_l2_mds' = ReadOneRecord(CS_l2_mds, DecoderLayout, call.file,
                                         HeaderLines(call.file), fid, r + 1)
          /\ fid' = fid + RecordBytes(DecoderLayout)
          /\ r' = r + 1
          /\ UNCHANGED <<pc, err>>
  /\ UNCHANGED <<mphVars, hdrVars, toolVars, before, n_records, call, i_record_size, read_cryosat_variables, st_size,
                 j_num_DSR, headers, GPS_Time, leap_seconds, self>>

\* a text np.uint32 accepts: digits with an optional sign in front
IsIntText(t) ==
  /\ t # << >>
  /\ LET body == IF t[1] \in {"+", "-"} THEN Sub(t, 2, Len(t)) ELSE t
     IN  body # << >> /\ \A i \in 1..Len(body) : body[i] \in Digits

UInt32(v) == [i \in 1..4 |-> ByteOf(v, 4, i)]

\* lines 159-172 and 179-180: the end of the two branches.  With headers
\* the metadata and the two columns made from the headers are added.
CloseFile ==
  /\ pc = "read" /\ r >= n_records
  /\ fid' = -1
  /\ IF headers.called = << >>
     THEN /\ pc' = IF call.unpack THEN "unpack" ELSE "time"
          /\ UNCHANGED <<err, CS_l2_mds>>
     ELSE IF Key_ABS_ORBIT \notin DOMAIN headers.MPH
       THEN Raise("KeyError") /\ UNCHANGED CS_l2_mds
     ELSE IF ~IsIntText(headers.MPH[Key_ABS_ORBIT])
       THEN Raise("ValueError") /\ UNCHANGED CS_l2_mds
     ELSE IF Key_ASCENDING_FLAG \notin DOMAIN headers.SPH
       THEN Raise("KeyError") /\ UNCHANGED CS_l2_mds
     ELSE /\ LET orbit == UInt32(LastInt(headers.MPH[Key_ABS_ORBIT]).value)
                 flag == headers.SPH[Key_ASCENDING_FLAG] = TextValue(<<"A">>)
                 Abs_Orbit == [zeros(j_num_DSR, "uint32", UInt32(0)) EXCEPT
                                 !.data = [i \in 1..j_num_DSR |-> orbit]]
                 Ascending_flag == [zeros(j_num_DSR, "bool", FALSE) EXCEPT
                                      !.data = [i \in 1..j_num_DSR |-> flag]]
             IN  CS_l2_mds' =
                   [g \in DOMAIN CS_l2_mds \cup {"METADATA"} |->
                      IF g = "METADATA"
                        THEN [MPH |-> headers.MPH, SPH |-> headers.SPH, DSD |-> headers.DSD]
                      ELSE IF g = "Data_1Hz"
                        THEN [f \in DOMAIN CS_l2_mds[g] \cup {"Abs_Orbit", "Ascending_flag"} |->
                                IF f = "Abs_Orbit" THEN Abs_Orbit
                                ELSE IF f = "Ascending_flag" THEN Ascending_flag
                                ELSE CS_l2_mds[g][f]]
                      ELSE CS_l2_mds[g]]
          /\ pc' = IF call.unpack THEN "unpack" ELSE "time"
          /\ err' = err
  /\ UNCHANGED <<mphVars, hdrVars, toolVars, before, n_records, call, i_record_size, read_cryosat_variables, st_size,
                 j_num_DSR, headers, r, GPS_Time, leap_seconds, self>>

\* lines 183-190: the scaling loop; a key without a factor ends the call
\* with the columns before it scaled
Unpack ==
  /\ pc = "unpack"
  /\ LET order == ScaleOrder(CS_l2_mds, DecoderLayout)
         stop == FirstUnscalable(CS_l2_mds, cryosat_scaling_factors, order)
     IN  /\ CS_l2_mds' = ScaleBefore(CS_l2_mds, cryosat_scaling_factors, order, stop)
         /\ IF stop <= Len(order) THEN Raise("KeyError") ELSE pc' = "time" /\ err' = err
  /\ UNCHANGED <<mphVars, hdrVars, toolVars, before, n_records, call, i_record_size, read_cryosat_variables, st_size,
                 j_num_DSR, headers, fid, r, GPS_Time, leap_seconds, self>>

\* lines 193-199: Day, Second and Micsec of a record are broadcast to its
\* slots and the GPS time of every slot is computed.  The factors of the
\* four time fields are 1.0, so the data of their columns are their values.
BroadcastTime(mds) ==
  LET Day == mds["Data_1Hz"]["Day"]
      Second == mds["Data_1Hz"]["Second"]
      Micsec == mds["Data_1Hz"]["Micsec"]
      D_time_mics == mds["Data_20Hz"]["D_time_mics"]
      wraps == Micsec.dtype = "int32" /\ D_time_mics.dtype = "int32"
  IN  [data |-> [i \in DOMAIN D_time_mics.data |->
                   [b \in DOMAIN D_time_mics.data[i] |->
                      IF D_time_mics.mask[i][b] THEN masked
                      ELSE calc_GPS_time(Day.data[i], Second.data[i],
                             MicsecSum(Micsec.data[i], D_time_mics.data[i][b], wraps))]],
       mask |-> D_time_mics.mask]

CalcTime ==
  /\ pc = "time"
  /\ GPS_Time' = BroadcastTime(CS_l2_mds)
  /\ pc' = "leap"
  /\ UNCHANGED <<mphVars, hdrVars, toolVars, before, n_records, call, err, i_record_size, read_cryosat_variables, st_size,
                 j_num_DSR, headers, fid, r, CS_l2_mds, leap_seconds, self>>

\* count_leap_seconds on the array of GPS times
CountAll(times) ==
  [data |-> [i \in DOMAIN times.data |->
               [b \in DOMAIN times.data[i] |->
                  IF times.mask[i][b] THEN masked ELSE count_leap_seconds(times.data[i][b])]],
   mask |-> times.mask]

\* lines 201-203: the leap seconds of every slot and the column days_J2k
LeapCorrect ==
  /\ pc = "leap"
  /\ LET n_leaps == CountAll(GPS_Time)
         days_J2k ==
           [dtype |-> "float64", e |-> 0,
            data |-> [i \in DOMAIN GPS_Time.data |->
                        [b \in DOMAIN GPS_Time.data[i] |->
                           IF GPS_Time.mask[i][b] THEN masked
                           ELSE days_J2k_of(GPS_Time.data[i][b], n_leaps.data[i][b])]],
            mask |-> GPS_Time.mask]
     IN  /\ leap_seconds' = n_leaps
         /\ CS_l2_mds' =
              [CS_l2_mds EXCEPT !["Data_20Hz"] =
                 [f \in DOMAIN @ \cup {"days_J2k"} |-> IF f = "days_J2k" THEN days_J2k ELSE @[f]]]
  /\ pc' = "extract"
  /\ UNCHANGED <<mphVars, hdrVars, toolVars, before, n_records, call, err, i_record_size, read_cryosat_variables, st_size,
                 j_num_DSR, headers, fid, r, GPS_Time, self>>

\* __default_field_dict__: the (group, field) pairs in the order the
\* extraction loop visits them
default_field_dict ==
  << <<"Data_1Hz", "Day">>, <<"Data_1Hz", "Second">>, <<"Data_1Hz", "Micsec">>,
     <<"Data_1Hz", "Lat_1Hz">>, <<"Data_1Hz", "Lon_1Hz">>, <<"Data_1Hz", "Alt_1Hz">>,
     <<"Data_1Hz", "Roll">>, <<"Data_1Hz", "Pitch">>, <<"Data_1Hz", "Yaw">>,
     <<"Data_1Hz", "N_valid">>, <<"Corrections", "dryTrop">>, <<"Corrections", "wetTrop">>,
     <<"Corrections", "InvBar">>, <<"Corrections", "DAC">>, <<"Corrections", "Iono">>,
     <<"Corrections", "SSB">>, <<"Corrections", "ocTideElv">>, <<"Corrections", "lpeTideElv">>,
     <<"Corrections", "olTideElv">>, <<"Corrections", "seTideElv">>, <<"Corrections", "gpTideElv">>,
     <<"Corrections", "ODLE">>, <<"Corrections", "Ice_conc">>, <<"Corrections", "Snow_depth">>,
     <<"Corrections", "Snow_density">>, <<"Corrections", "C_status">>, <<"Corrections", "SWH">>,
     <<"Corrections", "Wind_speed">>, <<"Data_20Hz", "days_J2k">>, <<"Data_20Hz", "D_time_mics">>,
     <<"Data_20Hz", "Lat">>, <<"Data_20Hz", "Lon">>, <<"Data_20Hz", "Elev_1">>,
     <<"Data_20Hz", "Elev_2">>, <<"Data_20Hz", "Elev_3">>, <<"Data_20Hz", "Sig0_1">>,
     <<"Data_20Hz", "Sig0_2">>, <<"Data_20Hz", "Sig0_3">>, <<"Data_20Hz", "Freeboard">>,
     <<"Data_20Hz", "SSHA_interp">>, <<"Data_20Hz", "SSHA_interp_count">>, <<"Data_20Hz", "SSHA_interp_RMS">>,
     <<"Data_20Hz", "Peakiness">>, <<"Data_20Hz", "N_avg">>, <<"Data_20Hz", "Quality_flag">>,
     <<"Data_20Hz", "Corrections_flag">>, <<"Data_20Hz", "Quality_1">>, <<"Data_20Hz", "Quality_2">>,
     <<"Data_20Hz", "Quality_3">>, <<"METADATA", "MPH">>, <<"METADATA", "SPH">> >>

\* the fields the extraction loop sets before it ends: all of them, or
\* those before the first pair that the dictionary does not hold
Present(mds, pair) == pair[1] \in DOMAIN mds /\ pair[2] \in DOMAIN mds[pair[1]]
Extractable(mds, pairs) ==
  LET missing == {k \in 1..Len(pairs) : ~Present(mds, pairs[k])}
  IN  IF missing = {} THEN Len(pairs) ELSE SetMin(missing) - 1

\* lines 206-213: for every pair in turn the field is appended to the
\* field list unless it is there, and then set as an attribute.  n pairs
\* are set; the pair after them, when there is one, is the pair whose
\* column the dictionary lacks: its name is appended before the lookup
\* of the column raises, and no attribute is set for it
ExtractInto(container, mds, pairs, n) ==
  LET reached == Min(n + 1, Len(pairs))
      new == {k \in 1..reached :
                /\ \A i \in 1..Len(container.fields) : container.fields[i] # pairs[k][2]
                /\ \A j \in 1..(k - 1) : pairs[j][2] # pairs[k][2]}
      names == {pairs[k][2] : k \in 1..n}
      last(f) == pairs[SetMax({k \in 1..n : pairs[k][2] = f})]
      appended == Select(pairs, new)
  IN  [fields |-> container.fields \o [m \in 1..Len(appended) |-> appended[m][2]],
       attrs |-> [f \in DOMAIN container.attrs \cup names |->
                    IF f \in names THEN mds[last(f)[1]][f] ELSE container.attrs[f]]]

FieldPairs == IF call.field_dict.given THEN call.field_dict.pairs ELSE default_field_dict

\* mutant: a column the dictionary lacks is reported as a ValueError
MissingColumn_as_ValueError == "ValueError"

\* the exception of CS_l2_mds[group][field] for a group or field the
\* dictionary lacks
MissingColumn == "KeyError"

\* lines 205-218 of from_dbl, 277-289 of from_nc: the extraction
Extract ==
  /\ pc = "extract"
  /\ LET n == Extractable(CS_l2_mds, FieldPairs)
     IN  /\ self' = ExtractInto(self, CS_l2_mds, FieldPairs, n)
         /\ IF n < Len(FieldPairs) THEN Raise(MissingColumn) ELSE pc' = "done" /\ err' = err
  /\ UNCHANGED <<mphVars, hdrVars, toolVars, before, n_records, call, i_record_size, read_cryosat_variables, st_size,
                 j_num_DSR, headers, fid, r, CS_l2_mds, GPS_Time, leap_seconds>>

(***************************************************************************)
(* from_nc and cryosat_baseline_D, step by step                            *)
(***************************************************************************)
\* lines 224-262: the file name is parsed
ParseNameNC ==
  /\ pc = "start" /\ call.fn = "from_nc"
  /\ IF ~findall_pop(fileBasename(call.name, call.file.tail), 1, NoMatch).ok
     THEN Raise("IndexError")
     ELSE pc' = "dataset" /\ err' = err
  /\ UNCHANGED <<mphVars, hdrVars, toolVars, before, call, i_record_size, read_cryosat_variables, st_size, j_num_DSR,
                 headers, fid, n_records, r, CS_l2_mds, GPS_Time, leap_seconds, self>>

\* fid.set_auto_scale(unpack): the exponent of the scale factor applied to
\* variable v when it is read
AutoScale(file, unpack, v) == IF unpack /\ v \in file.packed THEN 3 ELSE 0

\* fid.variables[v][:].copy() for the variable of low-rate field k
CopyVariable(file, unpack, k, n) ==
  [dtype |-> IF AutoScale(file, unpack, D_LowRate[k].v) > 0 THEN "float64" ELSE "int32",
   e |-> AutoScale(file, unpack, D_LowRate[k].v),
   data |-> [i \in 1..n |-> LowVariable(file, k, i)]]

\* lines 930-1124: the dictionary before the record loop
AllocateD(file, unpack, n) ==
  LET derived(f) ==
        IF f = "Time" THEN [dtype |-> "float64", e |-> 0, data |-> file.time_cor_01]
        ELSE IF f = "Day"
          THEN [dtype |-> "int32", e |-> 0, data |-> [i \in 1..n |-> DayOf(file.time_cor_01[i])]]
        ELSE IF f = "Second"
          THEN [dtype |-> "int32", e |-> 0, data |-> [i \in 1..n |-> SecondOf(file.time_cor_01[i])]]
        ELSE IF f = "Micsec"
          THEN [dtype |-> "int32", e |-> 0, data |-> [i \in 1..n |-> MicsecOf(file.time_cor_01[i])]]
        ELSE IF f = "Abs_Orbit"
          THEN [zeros(n, "uint32", UInt32(0)) EXCEPT
                  !.data = [i \in 1..n |-> UInt32(file.abs_orbit_number)]]
        ELSE [zeros(n, "bool", FALSE) EXCEPT
                !.data = [i \in 1..n |-> file.ascending_flag = "A"]]
      made == {"Time", "Day", "Second", "Micsec", "Abs_Orbit", "Ascending_flag"}
  IN  [g \in {"Data_1Hz", "Corrections", "Data_20Hz"} |->
         IF g = "Data_20Hz"
         THEN [f \in {D_HighRate[k].f : k \in 1..Len(D_HighRate)} |->
                 LET k == CHOOSE j \in 1..Len(D_HighRate) : D_HighRate[j].f = f
                 IN  [ma_zeros(n, "float64", IF f = "Time" THEN Time(0, 0) ELSE 0) EXCEPT
                        !.e = AutoScale(file, unpack, D_HighRate[k].v)]]
         ELSE [f \in FieldNames(D_LowRate, g) \cup (IF g = "Data_1Hz" THEN made ELSE {}) |->
                 IF g = "Data_1Hz" /\ f \in made THEN derived(f)
                 ELSE CopyVariable(file, unpack,
                        CHOOSE j \in 1..Len(D_LowRate) : D_LowRate[j].g = g /\ D_LowRate[j].f = f,
                        n)]]

\* lines 921-1124 of cryosat_baseline_D: the file is opened, the number
\* of records is the length of time_cor_01, the low-rate columns are made
\* and the high-rate columns allocated; the two attributes the code reads
\* here must be there
OpenDataset ==
  /\ pc = "dataset"
  /\ fid' = 0
  /\ IF {"abs_orbit_number", "ascending_flag"} \cap call.file.absent # {}
     THEN Raise("AttributeError") /\ UNCHANGED <<n_records, r, CS_l2_mds>>
     ELSE /\ n_records' = Len(call.file.time_cor_01)
          /\ r' = 0
          /\ CS_l2_mds' = AllocateD(call.file, call.unpack, Len(call.file.time_cor_01))
          /\ pc' = "ragged"
          /\ err' = err
  /\ UNCHANGED <<mphVars, hdrVars, toolVars, before, call, i_record_size, read_cryosat_variables, st_size, j_num_DSR,
                 headers, GPS_Time, leap_seconds, self>>

\* One pass of the record loop of cryosat_baseline_D, for record rec with
\* index idx and count cnt: for every high-rate field the elements
\* [idx, idx + cnt) of its flat variable, FlatValue(file, k, i) being
\* element i of the variable of field k, are assigned to the slots [0, cnt) of the record,
\* which are marked valid.
PlaceRecord(mds, fields, file, time_cor, rec, idx, cnt) ==
  LET lhs == SliceStop(cnt, n_blocks)
      from == PySlice(idx, idx + cnt, file.n_20)
      x(k) == [j \in 1..from.len |->
                 IF fields[k].f = "D_time_mics"
                 THEN MicrosBetween(FlatValue(file, k, from.first + j - 1), time_cor)
                 ELSE FlatValue(file, k, from.first + j - 1)]
  IN  [g \in DOMAIN mds |->
         IF g # "Data_20Hz" THEN mds[g]
         ELSE [f \in DOMAIN mds[g] |->
                 LET k == CHOOSE j \in 1..Len(fields) : fields[j].f = f
                 IN  [mds[g][f] EXCEPT
                        !.data[rec] = PlaceRow(@, x(k), lhs, from.len),
                        !.mask[rec] = MaskRow(@, cnt)]]]

\* lines 1126-1188: one pass of the record loop.  The first assignment of
\* the pass raises ValueError when the samples of the slice cannot be
\* assigned to the slots of the count.
RaggedRecord ==
  /\ pc = "ragged" /\ r < n_records
  /\ LET idx == call.file.ind_first_meas_20hz_01[r + 1]
         cnt == call.file.num_valid_01[r + 1]
     IN  IF ~Assignable(SliceStop(cnt, n_blocks), PySlice(idx, idx + cnt, call.file.n_20).len)
         THEN Raise("ValueError") /\ UNCHANGED <<r, CS_l2_mds>>
         ELSE /\ CS_l2_mds' = PlaceRecord(CS_l2_mds, D_HighRate, call.file,
                                          call.file.time_cor_01[r + 1], r + 1, idx, cnt)
              /\ r' = r + 1
              /\ UNCHANGED <<pc, err>>
  /\ UNCHANGED <<mphVars, hdrVars, toolVars, before, call, i_record_size, read_cryosat_variables, st_size, j_num_DSR,
                 headers, fid, n_records, GPS_Time, leap_seconds, self>>

\* mutant: a key whose attribute the file lacks is kept, with an empty value
AttributesOf_default(file, table) ==
  [key \in {table[k][1] : k \in 1..Len(table)} |->
     LET k == CHOOSE j \in 1..Len(table) : table[j][1] = key
     IN  IF table[k][2] \in file.absent THEN ""
         ELSE IF table[k][2] = "ascending_flag" THEN file.ascending_flag ELSE table[k][2]]

\* the dictionary of the keys of a table whose attributes the file has
AttributesOf(file, table) ==
  [key \in {table[k][1] : k \in {j \in 1..Len(table) : table[j][2] \notin file.absent}} |->
     LET k == CHOOSE j \in 1..Len(table) : table[j][1] = key
     IN  IF table[k][2] = "ascending_flag" THEN file.ascending_flag ELSE table[k][2]]

\* lines 1189-1299: the metadata are read from the global attributes, the
\* mode dependent ones when they are there, and the file is closed; an
\* attribute read without that test and not there raises AttributeError
ReadAttributes ==
  /\ pc = "ragged" /\ r >= n_records
  /\ IF \E k \in 1..Len(D_MPH \o D_SPH) : (D_MPH \o D_SPH)[k][2] \in call.file.absent
     THEN Raise("AttributeError") /\ UNCHANGED <<fid, CS_l2_mds>>
     ELSE /\ CS_l2_mds' =
               [g \in DOMAIN CS_l2_mds \cup {"METADATA"} |->
                  IF g = "METADATA"
                  THEN [MPH |-> AttributesOf(call.file, D_MPH),
                        SPH |-> AttributesOf(call.file, D_SPH \o D_Optional),
                        DSD |-> EmptyDict]
                  ELSE CS_l2_mds[g]]
          /\ fid' = -1
          /\ pc' = "time"
          /\ err' = err
  /\ UNCHANGED <<mphVars, hdrVars, toolVars, before, call, i_record_size, read_cryosat_variables, st_size, j_num_DSR,
                 headers, n_records, r, GPS_Time, leap_seconds, self>>

(***************************************************************************)
(* The calls of the model and the specification                            *)
(***************************************************************************)
None == [given |-> FALSE, pairs |-> << >>]
Given(pairs) == [given |-> TRUE, pairs |-> pairs]

\* a field dictionary every baseline can serve
CommonFields ==
  Given(<< <<"Data_1Hz", "Day">>, <<"Data_1Hz", "N_valid">>, <<"Corrections", "dryTrop">>,
           <<"Data_20Hz", "days_J2k">>, <<"Data_20Hz", "D_time_mics">>,
           <<"Data_20Hz", "Lat">> >>)

Call(fn, name, file, unpack, field_dict) ==
  [fn |-> fn, name |-> name, file |-> file, unpack |-> unpack, field_dict |-> field_dict]

\* the products read under the other names
NamedBinary == File(Tail_C, "C", NoHeader, Payload(2, 1), 0)
NamedNC == NCFile(Tail_D, 345686399, << <<0, 3>>, <<3, 4>> >>, 7, {}, {})

Calls ==
  {Call("from_dbl", GoodName, f, u, d) :
     f \in BinaryFiles, u \in BOOLEAN, d \in {None, CommonFields}}
  \cup {Call("from_nc", GoodName, f, u, d) :
          f \in NCFiles, u \in BOOLEAN, d \in {None, CommonFields}}
  \cup {Call("from_dbl", n, NamedBinary, FALSE, CommonFields) : n \in OtherNames \cup BadNames}
  \cup {Call("from_nc", n, NamedNC, FALSE, CommonFields) : n \in OtherNames \cup BadNames}

NoCall == Call("none", GoodName, File(<< >>, "AB", NoHeader, << >>, 0), FALSE, None)

IdleMPH == BlockOf(ProductEntry, 0, 2, KV(VarKey, TRUE, <<"a">>, << >>))

Init ==
  /\ mph_in = IdleMPH
  /\ mph_out = NotCalled
  /\ hdr_in = IdleHeader
  /\ sph_out = NotCalled
  /\ dsd_out = NotCalled
  /\ call \in Calls
  /\ pc = "start"
  /\ err = "none"
  /\ i_record_size = 0
  /\ read_cryosat_variables = "none"
  /\ st_size = 0
  /\ j_num_DSR = 0
  /\ headers = NoHeaders
  /\ fid = -1
  /\ n_records = 0
  /\ r = 0
  /\ CS_l2_mds = NoColumns
  /\ GPS_Time = NoTimes
  /\ leap_seconds = NoTimes
  /\ self = EmptyContainer
  /\ before = EmptyContainer
  /\ IdleTools

Next ==
  \/ ParseName
  \/ Stat
  \/ ReadHeaders
  \/ OpenFile
  \/ ReadRecord
  \/ CloseFile
  \/ ParseNameNC
  \/ OpenDataset
  \/ RaggedRecord
  \/ ReadAttributes
  \/ Unpack
  \/ CalcTime
  \/ LeapCorrect
  \/ Extract

Spec == Init /\ [][Next]_vars

(***************************************************************************)
(* Properties                                                              *)
(***************************************************************************)
\* the record loop of the decoder has run to its end
Decoded == call.fn = "from_dbl" /\ CS_l2_mds # NoColumns /\ r = n_records

\* the slots of record n a high-rate column marks valid
ValidSlots(col, n) == {b \in Slots : ~col.mask[n][b]}

\* the raw value of N_valid of record n
N_validOf(n) == CS_l2_mds["Data_1Hz"]["N_valid"].data[n]

(***************************************************************************)
(* C1: after cryosat_baseline_AB or cryosat_baseline_C has decoded a file, *)
(* for every record and whatever value its N_valid holds, every Data_20Hz  *)
(* field marks valid exactly N_valid of its 20 slots, the slots of indices *)
(* 0 to N_valid - 1, and none at an index of N_valid or more.              *)
(***************************************************************************)
C1_MaskIsCount ==
  Decoded =>
    \A n \in 1..j_num_DSR : \A f \in DOMAIN CS_l2_mds["Data_20Hz"] :
       /\ ValidSlots(CS_l2_mds["Data_20Hz"][f], n) = {b \in Slots : b <= N_validOf(n)}
       /\ Cardinality(ValidSlots(CS_l2_mds["Data_20Hz"][f], n)) = N_validOf(n)

(***************************************************************************)
(* C2: the bytes read for one record, the widths of the low-rate fields    *)
(* plus 20 times the widths of the fields of a sub-record, are 980 in      *)
(* cryosat_baseline_AB and 1392 in cryosat_baseline_C, the record sizes    *)
(* from_dbl counts records with: after n records the decoder stands        *)
(* n record sizes behind the place it started at.                          *)
(***************************************************************************)
C2_RecordBytes ==
  /\ RecordBytes(cryosat_baseline_AB) = 980
  /\ RecordBytes(cryosat_baseline_C) = 1392
  /\ pc = "read" =>
       /\ RecordBytes(DecoderLayout) = i_record_size
       /\ fid = Min(headers.j_DS_start, st_size) + r * i_record_size

\* two records of a baseline C product without header have been read
C2_Witness ==
  /\ pc = "read" /\ r = 2
  /\ read_cryosat_variables = "cryosat_baseline_C"
  /\ fid = 2784

(***************************************************************************)
(* C3: from_dbl decides from the sizes alone whether there is a header.    *)
(* When the file size is a whole number of records no header parser is     *)
(* called and decoding starts at byte 0; otherwise read_MPH, read_SPH and  *)
(* read_DSD are called and the offset of the records and their number are  *)
(* those of the Data Set Descriptor.                                       *)
(***************************************************************************)
\* the descriptor of the records as written in the header of the file
WrittenDSD == call.file.header.dsd[1]

C3_HeaderBySize ==
  LET whole == (FileSize(call.file) \div i_record_size) * i_record_size = FileSize(call.file)
  IN  /\ (pc \in {"headers", "open"} /\ whole) => pc = "open" /\ headers = NoHeaders
      /\ (pc \in {"headers", "open"} /\ ~whole) =>
            \/ pc = "headers"
            \/ /\ headers.called = <<"read_MPH", "read_SPH", "read_DSD">>
               /\ headers.j_DS_start = WrittenDSD.DS_OFFSET
               /\ j_num_DSR = WrittenDSD.NUM_DSR
      /\ pc = "read" =>
            /\ whole <=> headers.called = << >>
            /\ whole => fid = r * i_record_size /\ j_num_DSR * i_record_size = st_size
            /\ ~whole => /\ fid = WrittenDSD.DS_OFFSET + r * i_record_size
                         /\ j_num_DSR = WrittenDSD.NUM_DSR

\* the first record of a product with a header and a second descriptor has
\* been read from the offset the first descriptor gives
C3_Witness ==
  /\ pc = "read" /\ r = 1
  /\ headers.called = <<"read_MPH", "read_SPH", "read_DSD">>
  /\ Len(call.file.header.dsd) = 2
  /\ fid = HeaderBytes(call.file) + i_record_size
  /\ j_num_DSR = MaxRecords

(***************************************************************************)
(* C4: with a header, from_dbl ends with a fatal error whenever DS_OFFSET  *)
(* + DSR_SIZE*NUM_DSR is more than the size of the file, and no record is  *)
(* decoded before it.                                                      *)
(***************************************************************************)
\* the three parsers have returned and the numbers of the descriptor read
HeaderRead ==
  /\ headers.called = <<"read_MPH", "read_SPH", "read_DSD">>
  /\ \A k \in {Key_DS_OFFSET, Key_NUM_DSR, Key_DSR_SIZE} : k \in DOMAIN headers.DSD

ColumnGroups == {"Data_1Hz", "Corrections", "Data_20Hz"}

\* column col has n records, and n_blocks slots in each if it is high-rate
HasRecords(col, n) ==
  /\ DOMAIN col.data = 1..n
  /\ IsMasked(col) =>
       /\ DOMAIN col.mask = 1..n
       /\ \A i \in 1..n : DOMAIN col.data[i] = Slots /\ DOMAIN col.mask[i] = Slots

C5_RecordCount ==
  /\ CS_l2_mds # NoColumns =>
       /\ call.fn = "from_dbl" =>
            n_records = IF headers.called = << >> THEN FileSize(call.file) \div i_record_size
                        ELSE WrittenDSD.NUM_DSR
       /\ call.fn = "from_nc" => n_records = Len(call.file.time_cor_01)
       /\ r <= n_records
       /\ \A g \in ColumnGroups : \A f \in DOMAIN CS_l2_mds[g] :
             HasRecords(CS_l2_mds[g][f], n_records)
  /\ GPS_Time # NoTimes => HasRecords(GPS_Time, n_records)
  /\ leap_seconds # NoTimes => HasRecords(leap_seconds, n_records)
  /\ pc = "done" =>
       \A k \in 1..Len(FieldPairs) :
          FieldPairs[k][1] \in ColumnGroups => HasRecords(self.attrs[FieldPairs[k][2]], n_records)

\* a file of 3*980 bytes without header has been read with scaling off:
\* three records are in the container
C5_Witness ==
  /\ pc = "done" /\ call.fn = "from_dbl"
  /\ call.file.header = NoHeader /\ st_size = 3 * 980 /\ i_record_size = 980
  /\ n_records = 3
  /\ DOMAIN self.attrs["Lat"].data = 1..3
  /\ DOMAIN self.attrs["days_J2k"].data = 1..3

(***************************************************************************)
(* C7: cryosat_baseline_D places, for every record r with the pair         *)
(* (start[r], count[r]), the elements [start[r], start[r] + count[r]) of   *)
(* every flat variable in the slots [0, count[r]) of the record, in        *)
(* order, marks exactly those slots valid and leaves every other slot      *)
(* invalid.                                                                *)
(***************************************************************************)
\* cryosat_baseline_D is past its record loop, or has left it by an
\* exception
RaggedOver ==
  /\ call.fn = "from_nc" /\ CS_l2_mds # NoColumns
  /\ pc # "ragged" \/ r = n_records

\* element i (from 0) of the flat array that field k of record n is made of
FlatElement(k, n, i) ==
  IF D_HighRate[k].f = "D_time_mics"
  THEN MicrosBetween(time_20_ku(call.file, i), call.file.time_cor_01[n])
  ELSE FlatValue(call.file, k, i)

\* record n holds the count elements from start on in its first slots and
\* no other slot of it is valid
Placed(n, start, count) ==
  \A k \in 1..Len(D_HighRate) :
     LET col == CS_l2_mds["Data_20Hz"][D_HighRate[k].f]
     IN  /\ Cardinality(ValidSlots(col, n)) = count
         /\ ValidSlots(col, n) = 1..count
         /\ \A b \in 1..count : col.data[n][b] = FlatElement(k, n, start + b - 1)

C7_Ragged ==
  RaggedOver =>
    \A n \in 1..n_records :
       Placed(n, call.file.ind_first_meas_20hz_01[n], call.file.num_valid_01[n])

(***************************************************************************)
(* C8: with the scaling flag set, from_dbl replaces every non-boolean      *)
(* decoded value v of a field that has a scale factor s by v*s, the factor *)
(* applied once; boolean fields are left as they are; with the flag unset  *)
(* every value stays raw.                                                  *)
(***************************************************************************)
\* the scaling step of the call is behind, or was not to be taken
ScalingOver ==
  /\ Decoded /\ pc \notin {"read", "unpack"}
  /\ headers.called = << >> \/ "METADATA" \in DOMAIN CS_l2_mds

\* the records were decoded in the layout and from the place they were
\* written in and at, so that the decoded values are the written ones
Aligned ==
  /\ call.file.written = (IF read_cryosat_variables = "cryosat_baseline_C" THEN "C" ELSE "AB")
  /\ j_num_DSR <= Len(call.file.recs)
  /\ IF headers.called = << >> THEN call.file.header = NoHeader
     ELSE headers.j_DS_start = HeaderBytes(call.file)

\* the value a written number v is decoded to as type t
RawOf(v, t) == IF t \in WideTypes THEN [i \in 1..Width(t) |-> ByteOf(v, Width(t), i)] ELSE v

\* column col holds raw value v at element x as v*s (as v with the flag
\* unset): the mantissa is v and the exponent and type are those of s
HoldsScaled(col, x, v, fd, CS_l2_scale) ==
  /\ x = v
  /\ IF call.unpack
     THEN /\ col.e = CS_l2_scale[fd.g][fd.f].e
          /\ col.dtype = IF CS_l2_scale[fd.g][fd.f].float THEN "float64" ELSE NumpyType(fd.t)
     ELSE col.e = 0 /\ col.dtype = NumpyType(fd.t)

C8_Scaling ==
  (ScalingOver /\ Aligned) =>
    LET lay == DecoderLayout
        CS_l2_scale == cryosat_scaling_factors
    IN  /\ \A n \in 1..j_num_DSR : \A k \in 1..Len(lay.low) :
             (lay.low[k].f \in DOMAIN CS_l2_scale[lay.low[k].g] \/ ~call.unpack) =>
               HoldsScaled(CS_l2_mds[lay.low[k].g][lay.low[k].f],
                           CS_l2_mds[lay.low[k].g][lay.low[k].f].data[n],
                           RawOf(LowValue(call.file.recs[n], lay, k), lay.low[k].t),
                           lay.low[k], CS_l2_scale)
        /\ \A n \in 1..j_num_DSR : \A k \in 1..Len(lay.high) :
             (lay.high[k].f \in DOMAIN CS_l2_scale["Data_20Hz"] \/ ~call.unpack) =>
               \A b \in ValidSlots(CS_l2_mds["Data_20Hz"][lay.high[k].f], n) :
                 HoldsScaled(CS_l2_mds["Data_20Hz"][lay.high[k].f],
                             CS_l2_mds["Data_20Hz"][lay.high[k].f].data[n][b],
                             RawOf(HighValue(call.file.recs[n], lay, b - 1, k), lay.high[k].t),
                             lay.high[k], CS_l2_scale)
        /\ "Ascending_flag" \in DOMAIN CS_l2_mds["Data_1Hz"] =>
             /\ CS_l2_mds["Data_1Hz"]["Ascending_flag"].dtype = "bool"
             /\ CS_l2_mds["Data_1Hz"]["Ascending_flag"].e = 0
             /\ \A n \in 1..j_num_DSR :
                  CS_l2_mds["Data_1Hz"]["Ascending_flag"].data[n]
                    = (call.file.header.ASCENDING_FLAG = <<"A">>)

(***************************************************************************)
(* The GPS time of a slot before the leap correction (C9)                  *)
(***************************************************************************)
\* the GPS times have been computed
TimesComputed == GPS_Time # NoTimes

\* the instant t is (day + 7300)*86400 + second - 19 seconds and m
\* microseconds after the GPS epoch, m being m.s seconds and m.u
\* microseconds
IsGPSTime(t, day, second, m) ==
  /\ t.u = m.u
  /\ (t.d - day - 7300) * SecondsPerDay + t.s = second - 19 + m.s
  /\ t.s \in 0..(SecondsPerDay - 1)

\* a number of microseconds as whole seconds and microseconds
Micros(x) == [s |-> x \div MicrosPerSecond, u |-> x % MicrosPerSecond]

\* Micsec[n] + D_time_mics[n, b] as the program adds them
MicrosOf(n, b) ==
  LET Micsec == CS_l2_mds["Data_1Hz"]["Micsec"]
      D_time_mics == CS_l2_mds["Data_20Hz"]["D_time_mics"]
      x == Micros(Micsec.data[n])
      y == Micros(D_time_mics.data[n][b])
  IN  IF Micsec.dtype = "int32" /\ D_time_mics.dtype = "int32"
      THEN Micros(Add32(Micsec.data[n], D_time_mics.data[n][b]))
      ELSE [s |-> x.s + y.s + ((x.u + y.u) \div MicrosPerSecond),
            u |-> (x.u + y.u) % MicrosPerSecond]

(***************************************************************************)
(* C9, with the delta of the slot alone as the microseconds: for every     *)
(* record r and slot b, the GPS time from_dbl and from_nc compute before   *)
(* the leap correction is                                                  *)
(*   (Day[r] + 7300)*86400 + Second[r] + D_time_mics[r,b]/1e6 - 19.        *)
(***************************************************************************)
C9_DeltaOnly ==
  TimesComputed =>
    \A n \in DOMAIN GPS_Time.data : \A b \in ValidSlots(GPS_Time, n) :
       IsGPSTime(GPS_Time.data[n][b], CS_l2_mds["Data_1Hz"]["Day"].data[n],
                 CS_l2_mds["Data_1Hz"]["Second"].data[n],
                 Micros(CS_l2_mds["Data_20Hz"]["D_time_mics"].data[n][b]))

(***************************************************************************)
(* C9: for every record r and slot b, the GPS time from_dbl and from_nc    *)
(* compute before the leap correction is                                   *)
(*   (Day[r] + 7300)*86400 + Second[r] + microseconds/1e6 - 19,            *)
(* Day and Second being those of the record and the microseconds           *)
(* Micsec[r] + D_time_mics[r,b], the microseconds of the record plus the   *)
(* delta of the slot.  The sum of the two is taken in the type of the      *)
(* columns (int32, wrapping around, for unscaled binary columns) and       *)
(* Second as a single precision number.                                    *)
(***************************************************************************)
C9_GPSTime ==
  TimesComputed =>
    \A n \in DOMAIN GPS_Time.data : \A b \in ValidSlots(GPS_Time, n) :
       IsGPSTime(GPS_Time.data[n][b], CS_l2_mds["Data_1Hz"]["Day"].data[n],
                 Float32(CS_l2_mds["Data_1Hz"]["Second"].data[n]), MicrosOf(n, b))

\* a record of day 4000, second 86399 and 750000 microseconds: in its
\* slot of delta 550000 the two microsecond terms add up to a second and
\* 300000 microseconds
C9_Witness ==
  /\ TimesComputed
  /\ \E n \in DOMAIN GPS_Time.data :
       /\ CS_l2_mds["Data_1Hz"]["Day"].data[n] = 4000
       /\ CS_l2_mds["Data_1Hz"]["Second"].data[n] = 86399
       /\ CS_l2_mds["Data_1Hz"]["Micsec"].data[n] = 750000
       /\ 6 \in ValidSlots(GPS_Time, n)
       /\ CS_l2_mds["Data_20Hz"]["D_time_mics"].data[n][6] = 550000
       /\ GPS_Time.data[n][6] = [d |-> 11300, s |-> 86381, u |-> 300000]

(***************************************************************************)
(* C10: count_leap_seconds gives, for every instant, the number of the 18  *)
(* entries of the leap table that are at or before it, an entry equal to   *)
(* the instant counted; days_J2k is (GPS time - that number)/86400 - 7300. *)
(***************************************************************************)
\* the whole seconds of an instant no later than the year 2065
SecondsOf(t) == t.d * SecondsPerDay + t.s

\* the entries of the leap table at or before instant t; every entry lies
\* between day 0 and day 24000 of the GPS epoch
LeapsUntil(t) ==
  IF t.d < 0 THEN 0 ELSE IF t.d > 24000 THEN Len(leaps)
  ELSE Cardinality({i \in 1..Len(leaps) : leaps[i] <= SecondsOf(t)})

\* the leap seconds have been counted and days_J2k computed
LeapCorrected == leap_seconds # NoTimes /\ "days_J2k" \in DOMAIN CS_l2_mds["Data_20Hz"]

C10_LeapCount ==
  /\ Len(leaps) = 18
  /\ LeapCorrected =>
       \A n \in DOMAIN GPS_Time.data : \A b \in ValidSlots(GPS_Time, n) :
          LET t == GPS_Time.data[n][b]
              count == leap_seconds.data[n][b]
              days_J2k == CS_l2_mds["Data_20Hz"]["days_J2k"].data[n][b]
          IN  /\ count = LeapsUntil(t)
              /\ (days_J2k.d - t.d + 7300) * SecondsPerDay + days_J2k.s - t.s = -count
              /\ days_J2k.u = t.u
              /\ days_J2k.s \in 0..(SecondsPerDay - 1)

\* a slot at the very instant of the entry 820108813 of the table counts
\* it, and the slot a microsecond before does not
C10_Witness ==
  /\ LeapCorrected
  /\ \E n \in DOMAIN GPS_Time.data : \E m \in DOMAIN GPS_Time.data :
       /\ 1 \in ValidSlots(GPS_Time, n) /\ 1 \in ValidSlots(GPS_Time, m)
       /\ SecondsOf(GPS_Time.data[n][1]) = 820108813 /\ GPS_Time.data[n][1].u = 0
       /\ leap_seconds.data[n][1] = 14
       /\ CS_l2_mds["Data_20Hz"]["days_J2k"].data[n][1] = [d |-> 2191, s |-> 86399, u |-> 0]
       /\ SecondsOf(GPS_Time.data[m][1]) = 820108812 /\ GPS_Time.data[m][1].u = 999999
       /\ leap_seconds.data[m][1] = 13

(***************************************************************************)
(* C11: for all instants t1 < t2, count_leap_seconds(t1) <=                *)
(* count_leap_seconds(t2), and the leap table it counts over is strictly   *)
(* increasing.                                                             *)
(***************************************************************************)
\* instant t1 is before instant t2
Earlier(t1, t2) ==
  \/ t1.d < t2.d
  \/ t1.d = t2.d /\ t1.s < t2.s
  \/ t1.d = t2.d /\ t1.s = t2.s /\ t1.u < t2.u

C11_LeapMonotone ==
  /\ \A i \in 1..(Len(leaps) - 1) : leaps[i] < leaps[i + 1]
  /\ leap_seconds # NoTimes =>
       \A n \in DOMAIN GPS_Time.data : \A m \in DOMAIN GPS_Time.data :
          \A b \in ValidSlots(GPS_Time, n) : \A c \in ValidSlots(GPS_Time, m) :
             Earlier(GPS_Time.data[n][b], GPS_Time.data[m][c]) =>
                leap_seconds.data[n][b] <= leap_seconds.data[m][c]

\* the counts of one array rise from 13 to 14 between two of its slots and
\* stay at 14 between two later ones
C11_Witness ==
  /\ leap_seconds # NoTimes
  /\ \E n \in DOMAIN GPS_Time.data : \E m \in DOMAIN GPS_Time.data :
       \E b \in ValidSlots(GPS_Time, n) : \E c \in ValidSlots(GPS_Time, m) :
          \E e \in ValidSlots(GPS_Time, m) :
            /\ Earlier(GPS_Time.data[n][b], GPS_Time.data[m][c])
            /\ Earlier(GPS_Time.data[m][c], GPS_Time.data[m][e])
            /\ leap_seconds.data[n][b] = 13
            /\ leap_seconds.data[m][c] = 14
            /\ leap_seconds.data[m][e] = 14

(***************************************************************************)
(* C12: in the result of from_dbl, every slot at an index of n_valid or    *)
(* more of a record is masked in every Data_20Hz field, scaled or not,     *)
(* and in the time column days_J2k: the scaling and the time broadcast     *)
(* leave the mask as the decoder set it.                                   *)
(***************************************************************************)
\* from_dbl has returned its result
Returned == call.fn = "from_dbl" /\ pc = "done"

DefaultExtractionOver ==
  /\ call.fn \in {"from_dbl", "from_nc"} /\ ~call.field_dict.given
  /\ CS_l2_mds # NoColumns /\ "days_J2k" \in DOMAIN CS_l2_mds["Data_20Hz"]
  /\ pc # "extract"

\* the names of the default list in its order
DefaultNames == [k \in 1..Len(default_field_dict) |-> default_field_dict[k][2]]

FileClasses ==
  { <<"O", "F", "F", "L">>, <<"N", "R", "T", "_">>, <<"R", "P", "R", "O">>, <<"T", "E", "S", "T">>, <<"L", "T", "A", "_">> }

ProductCodes ==
  { <<"S", "I", "R", "_", "L", "R", "M", "_", "2">>,
    <<"S", "I", "R", "_", "F", "D", "M", "_", "2">>,
    <<"S", "I", "R", "_", "S", "I", "N", "_", "2">>,
    <<"S", "I", "R", "_", "S", "I", "D", "_", "2">>,
    <<"S", "I", "R", "_", "S", "A", "R", "_", "2">>,
    <<"S", "I", "R", "_", "G", "D", "R", "_", "2">>,
    <<"S", "I", "R", "_", "L", "R", "M", "I", "2">>,
    <<"S", "I", "R", "_", "S", "I", "N", "I", "2">>,
    <<"S", "I", "R", "_", "S", "I", "D", "I", "2">>,
    <<"S", "I", "R", "_", "S", "A", "R", "I", "2">> }

\* a start or stop of validity: digits, with at most one T between them
IsValidity(t) ==
  LET Ts == {i \in 1..Len(t) : t[i] = "T"}
  IN  /\ Len(t) >= 2
      /\ \A i \in 1..Len(t) : t[i] \in Digits \cup {"T"}
      /\ Cardinality(Ts) <= 1
      /\ t[1] \in Digits /\ t[Len(t)] \in Digits

\* the name of the call is of the form of the grammar
InGrammar ==
  /\ call.name.class \in FileClasses
  /\ call.name.product \in ProductCodes
  /\ call.name.sep = <<"_", "_">>
  /\ IsValidity(call.name.start) /\ IsValidity(call.name.stop)
  /\ call.name.join = <<"_">>
  /\ \E i \in 1..Len(call.file.tail) : call.file.tail[i] \in Digits

\* nothing of the file has been opened or read
Untouched ==
  /\ i_record_size = 0 /\ st_size = 0 /\ fid = -1 /\ headers = NoHeaders
  /\ n_records = 0 /\ r = 0 /\ CS_l2_mds = NoColumns /\ self = EmptyContainer

C14_NameGrammar ==
  (call.fn \in {"from_dbl", "from_nc"} /\ ~InGrammar /\ pc # "start") =>
     pc = "error" /\ err = "IndexError" /\ Untouched

\* a name whose product is none of the ten codes has been refused by
\* from_nc
C14_Witness ==
  /\ call.fn = "from_nc" /\ pc = "error" /\ err = "IndexError" /\ Untouched
  /\ call.name.class \in FileClasses
  /\ call.name.product = <<"S", "I", "R", "_", "S", "I", "N", "_", "3">>

(***************************************************************************)
(* C15: when the bytes of the file end before the last of the records to   *)
(* read is completely read, the binary decoder ends with a fatal error at  *)
(* the record that is cut short and from_dbl returns nothing; no record    *)
(* is returned whose fields keep the zeros they were allocated with.       *)
(***************************************************************************)
\* the whole records the file holds from the place the decoder starts at
WholeRecords == (st_size - Min(headers.j_DS_start, st_size)) \div i_record_size

\* the decoder has allocated more records than the file holds
StreamShort ==
  /\ call.fn = "from_dbl" /\ CS_l2_mds # NoColumns
  /\ WholeRecords < n_records

C15_ShortRead ==
  StreamShort =>
    /\ pc \in {"read", "error"}
    /\ r <= WholeRecords
    /\ pc = "error" => err = "ValueError" /\ r = WholeRecords
    /\ self = EmptyContainer

\* a file of two records and all but the last byte of a third has ended
\* the decoder at the third
C15_Witness ==
  /\ StreamShort /\ pc = "error" /\ err = "ValueError"
  /\ n_records = 3 /\ r = 2
  /\ st_size = fid + i_record_size - 1
  /\ self = EmptyContainer

\* every pair of the file takes its samples from within the flat arrays
WithinFlat(file) ==
  \A n \in 1..Len(file.num_valid_01) :
     /\ file.num_valid_01[n] >= 0
     /\ file.ind_first_meas_20hz_01[n] >= 0
     /\ file.ind_first_meas_20hz_01[n] + file.num_valid_01[n] <= file.n_20

(***************************************************************************)
(* C20: cryosat_baseline_D accepts any count of a record, counts above 20  *)
(* too: without an error, all count[r] samples of record r are placed in   *)
(* its slots and marked valid, and no sample is dropped.                   *)
(***************************************************************************)
C20_AnyCount ==
  (RaggedOver /\ WithinFlat(call.file)) =>
    /\ err # "ValueError"
    /\ \A n \in 1..n_records : \A k \in 1..Len(D_HighRate) :
         LET col == CS_l2_mds["Data_20Hz"][D_HighRate[k].f]
             start == call.file.ind_first_meas_20hz_01[n]
         IN  \A b \in 1..call.file.num_valid_01[n] :
               /\ b \in DOMAIN col.data[n]
               /\ ~col.mask[n][b]
               /\ col.data[n][b] = FlatElement(k, n, start + b - 1)

(***************************************************************************)
(* Claims on the attributes of baseline D, on failed calls and on the      *)
(* order of the reads                                                      *)
(***************************************************************************)
\* the attributes of the tables, and the keys they are stored under
AttributeNames(table) == {table[k][2] : k \in 1..Len(table)}
KeysOfPresent(table, absent) ==
  {table[k][1] : k \in {j \in 1..Len(table) : table[j][2] \notin absent}}

\* the metadata of the call were made
HasMetadata == call.fn = "from_nc" /\ "METADATA" \in DOMAIN CS_l2_mds

\* every key of the block comes with the attribute of its table entry, and
\* the keys are those of the attributes the file has
BlockOfPresent(block, table, absent) ==
  /\ DOMAIN block = KeysOfPresent(table, absent)
  /\ \A k \in 1..Len(table) :
       table[k][2] \notin absent =>
         block[table[k][1]] =
           (IF table[k][2] = "ascending_flag" THEN call.file.ascending_flag ELSE table[k][2])

(***************************************************************************)
(* C21, as claimed: in cryosat_baseline_D the absence of a file attribute  *)
(* that is mapped onto the MPH or SPH block is never fatal; the key of the *)
(* attribute is left out of the block and no default value takes its       *)
(* place.                                                                  *)
(***************************************************************************)
C21_AbsenceNotFatal ==
  call.fn = "from_nc" =>
    /\ err # "AttributeError"
    /\ HasMetadata =>
         /\ BlockOfPresent(CS_l2_mds["METADATA"]["MPH"], D_MPH, call.file.absent)
         /\ BlockOfPresent(CS_l2_mds["METADATA"]["SPH"], D_SPH \o D_Optional, call.file.absent)

(***************************************************************************)
(* C21, amended: in cryosat_baseline_D the absence of one of the three     *)
(* mode dependent attributes (xref_dem, xref_sea_ice, xref_snow_depth) is  *)
(* never fatal; its key is left out of the SPH block and no default value  *)
(* takes its place.  The absence of any other attribute mapped onto the    *)
(* MPH or SPH block is fatal: no block is made.                            *)
(***************************************************************************)
C21_ModeDependent ==
  call.fn = "from_nc" =>
    /\ call.file.absent \subseteq AttributeNames(D_Optional) =>
         /\ err # "AttributeError"
         /\ HasMetadata =>
              /\ BlockOfPresent(CS_l2_mds["METADATA"]["MPH"], D_MPH, {})
              /\ BlockOfPresent(CS_l2_mds["METADATA"]["SPH"], D_SPH \o D_Optional,
                                call.file.absent)
    /\ call.file.absent \cap AttributeNames(D_MPH \o D_SPH) # {} =>
         ~HasMetadata /\ pc # "done"

\* the metadata of a file without xref_dem were made: the SPH block holds
\* SEA_ICE_FILE and does not hold DEM_MODEL_FILE
C21_Witness ==
  /\ HasMetadata
  /\ call.file.absent = {"xref_dem"}
  /\ "DEM_MODEL_FILE" \notin DOMAIN CS_l2_mds["METADATA"]["SPH"]
  /\ "SEA_ICE_FILE" \in DOMAIN CS_l2_mds["METADATA"]["SPH"]
  /\ CS_l2_mds["METADATA"]["SPH"]["SEA_ICE_FILE"] = "xref_sea_ice"

\* the bytes of fields[1..k], added up in the order of the reads
RECURSIVE WidthSum(_, _)
WidthSum(fields, k) == IF k = 0 THEN 0 ELSE WidthSum(fields, k - 1) + Width(fields[k].t)

\* the value of type t the bytes of the file from offset off on stand for
ValueAt(lines, off, t) ==
  FromBytes([i \in 1..Width(t) |-> FileByte(call.file, lines, off + i - 1)], t)

\* the offset the decoder starts at: behind the header bytes from_dbl has
\* read, at 0 without header
StartOfReads == Min(headers.j_DS_start, st_size)

(***************************************************************************)
(* C23: the binary decoders read strictly sequentially.  Within a record   *)
(* the low-rate fields are read in declared order, then exactly 20         *)
(* sub-records, each in declared field order, and then the mask is set     *)
(* from the N_valid the record was decoded with; after k records the       *)
(* cursor is at payload_start + k*record_size, so that the first field of  *)
(* record r is read at payload_start + r*record_size.                      *)
(***************************************************************************)
C23_Sequential ==
  (call.fn = "from_dbl" /\ pc = "read") =>
    LET lay == DecoderLayout
        lines == HeaderLines(call.file)
        lowAt == Eager([k \in 1..(Len(lay.low) + 1) |-> WidthSum(lay.low, k - 1)])
        highAt == Eager([k \in 1..(Len(lay.high) + 1) |-> WidthSum(lay.high, k - 1)])
        lowEnd == lowAt[Len(lay.low) + 1]
        subRecord == highAt[Len(lay.high) + 1]
    IN  /\ fid = StartOfReads + r * i_record_size
        /\ \A n \in 1..r :
             LET at == StartOfReads + (n - 1) * i_record_size
             IN  /\ \A k \in 1..Len(lay.low) :
                      CS_l2_mds[lay.low[k].g][lay.low[k].f].data[n]
                        = ValueAt(lines, at + lowAt[k], lay.low[k].t)
                 /\ \A k \in 1..Len(lay.high) : \A b \in Slots :
                      LET col == CS_l2_mds["Data_20Hz"][lay.high[k].f]
                      IN  /\ col.data[n][b]
                               = ValueAt(lines, at + lowEnd + (b - 1) * subRecord + highAt[k],
                                         lay.high[k].t)
                          /\ col.mask[n][b] = ~(b <= SliceStop(N_validOf(n), n_blocks))

\* two records of baseline C were read from behind a header, the second
\* with five valid sub-records
C23_Witness ==
  /\ call.fn = "from_dbl" /\ pc = "read"
  /\ read_cryosat_variables = "cryosat_baseline_C"
  /\ headers.j_DS_start > 0
  /\ r = 2
  /\ fid = headers.j_DS_start + 2 * CS_L2_C_MDS_REC_SIZE
  /\ N_validOf(2) = 5

(***************************************************************************)
(* C26: with the scaling flag set, every non-boolean field the decoders of *)
(* baselines A/B and C produce, the Abs_Orbit column of a file with header *)
(* included, has an entry in the table of cryosat_scaling_factors, so that *)
(* the scaling step of from_dbl never fails on a missing factor.           *)
(***************************************************************************)
C26_TableCovers ==
  (call.fn = "from_dbl" /\ call.unpack /\ pc = "unpack") =>
    \A k \in 1..Len(ScaleGroups) : \A f \in DOMAIN CS_l2_mds[ScaleGroups[k]] :
      CS_l2_mds[ScaleGroups[k]][f].dtype # "bool" =>
        f \in DOMAIN cryosat_scaling_factors[ScaleGroups[k]]

(***************************************************************************)
(* C27: whenever the payload-size check of from_dbl passes and decoding    *)
(* starts, the bytes the decoder will consume, DS_OFFSET + NUM_DSR times   *)
(* the record size of the layout chosen from the file name (980 or 1392),  *)
(* do not exceed the file size: a header whose DSR_SIZE differs from that  *)
(* record size cannot lead the decoder past the end of the file.           *)
(***************************************************************************)
C27_ReadFits ==
  (call.fn = "from_dbl" /\ pc = "read" /\ headers # NoHeaders) =>
     headers.j_DS_start + j_num_DSR * i_record_size <= st_size

(***************************************************************************)
(* read_MPH as an operation                                                *)
(***************************************************************************)
InitMPH ==
  /\ mph_in \in MPHBlocks
  /\ mph_out = NotCalled
  /\ hdr_in = IdleHeader
  /\ sph_out = NotCalled
  /\ dsd_out = NotCalled
  /\ call = NoCall
  /\ pc = "idle"
  /\ err = "none"
  /\ i_record_size = 0
  /\ read_cryosat_variables = "none"
  /\ st_size = 0
  /\ j_num_DSR = 0
  /\ headers = NoHeaders
  /\ fid = -1
  /\ n_records = 0
  /\ r = 0
  /\ CS_l2_mds = NoColumns
  /\ GPS_Time = NoTimes
  /\ leap_seconds = NoTimes
  /\ self = EmptyContainer
  /\ before = EmptyContainer
  /\ IdleTools

CallReadMPH ==
  /\ mph_out = NotCalled
  /\ LET file_contents == FileText(Block(mph_in))
     IN  mph_out' = read_MPH(file_contents)
  /\ UNCHANGED <<mph_in, hdrVars, callVars, before, toolVars>>

NextMPH == CallReadMPH

SpecMPH == InitMPH /\ [][NextMPH]_vars

(***************************************************************************)
(* C6: read_MPH on a 41-line block of key/value lines maps every line's    *)
(* key to the value as written: a quoted value loses its surrounding       *)
(* double quotes, and only trailing whitespace is removed; a bare value is *)
(* returned verbatim apart from trailing whitespace.                       *)
(***************************************************************************)
\* the value a key/value entry is written with, quotes and trailing blanks off
WrittenValue(e) == IF e.quoted THEN rstrip(e.text) ELSE rstrip(e.text \o e.trail)

ValidBlock(b) == b.n >= n_MPH_lines /\ b.first = ProductEntry

BeforeFirstEquals(line) == Sub(line, 1, SetMin(CharAt(line, "=")) - 1)

C24_SplitAtFirst ==
  (mph_out # NotCalled /\ mph_out.err = "none") =>
     LET file_contents == FileText(Block(mph_in))
     IN  /\ \A i \in 1..n_MPH_lines :
              CharAt(file_contents[i], "=") # {} =>
                BeforeFirstEquals(file_contents[i]) \in DOMAIN mph_out.fields
         /\ \A k \in DOMAIN mph_out.fields : CharAt(k, "=") = {}

(***************************************************************************)
(* read_SPH and read_DSD as operations                                     *)
(***************************************************************************)
InitHeaders ==
  /\ mph_in = IdleMPH
  /\ mph_out = NotCalled
  /\ hdr_in \in Headers
  /\ sph_out = NotCalled
  /\ dsd_out = NotCalled
  /\ call = NoCall
  /\ pc = "idle"
  /\ err = "none"
  /\ i_record_size = 0
  /\ read_cryosat_variables = "none"
  /\ st_size = 0
  /\ j_num_DSR = 0
  /\ headers = NoHeaders
  /\ fid = -1
  /\ n_records = 0
  /\ r = 0
  /\ CS_l2_mds = NoColumns
  /\ GPS_Time = NoTimes
  /\ leap_seconds = NoTimes
  /\ self = EmptyContainer
  /\ before = EmptyContainer
  /\ IdleTools

CallReadSPH ==
  /\ sph_out = NotCalled
  /\ LET file_contents == HeaderText(hdr_in)
     IN  sph_out' = read_SPH(file_contents, 462)
  /\ UNCHANGED <<mphVars, hdr_in, dsd_out, callVars, before, toolVars>>

CallReadDSD ==
  /\ dsd_out = NotCalled
  /\ LET file_contents == HeaderText(hdr_in)
     IN  dsd_out' = read_DSD(file_contents)
  /\ UNCHANGED <<mphVars, hdr_in, sph_out, callVars, before, toolVars>>

NextHeaders == CallReadSPH \/ CallReadDSD

SpecHeaders == InitHeaders /\ [][NextHeaders]_vars

\* the entries of the header that follow the MPH, in the order of the file
EntriesAfterMPH(h) == (IF h.gap = NoLine THEN << >> ELSE <<h.gap>>) \o ItemEntries(h.items)

\* the names the ten patterns are written for
ProductNames == UNION {regex_patterns[c] : c \in 1..Len(regex_patterns)}

\* the entry is written as the DS_NAME line of a product the patterns name:
\* the key ends in DS_NAME, the value is quoted, and it is the name followed
\* by nothing but blanks and plus signs
NamesProduct(e) ==
  /\ e.kind = "kv"
  /\ e.quoted
  /\ Len(e.key) >= Len(DS_NAME_prefix)
  /\ Sub(e.key, Len(e.key) - Len(DS_NAME_prefix) + 1, Len(e.key)) = DS_NAME_prefix
  /\ \E name \in ProductNames :
       /\ StartsWith(e.text, name)
       /\ \A k \in (Len(name) + 1)..Len(e.text) : e.text[k] \in PadCharacters

(***************************************************************************)
(* C17: read_DSD raises a fatal error whenever no line after the MPH       *)
(* matches any of the ten DS_NAME patterns, also when the file has no line *)
(* after the MPH; it returns no block then, empty or partial.              *)
(***************************************************************************)
C17_NoDescriptor ==
  (/\ dsd_out # NotCalled
   /\ \A i \in 1..Len(EntriesAfterMPH(hdr_in)) : ~NamesProduct(EntriesAfterMPH(hdr_in)[i]))
  => /\ dsd_out.err = "IOError"
     /\ dsd_out.fields = EmptyDict

\* read_DSD was called on a header whose SPH holds a descriptor of a name
\* no pattern accepts, with its eight lines, and it raised
C17_Witness ==
  /\ dsd_out.err = "IOError"
  /\ hdr_in.gap = Spare
  /\ \E i \in 1..Len(hdr_in.items) :
       /\ hdr_in.items[i].kind = "group"
       /\ hdr_in.items[i].e = NameLine(TRUE, Name_Unknown, Pad_two)
       /\ hdr_in.items[i].members = Members_written

\* an entry read_SPH keeps as a header line: a key/value line without a
\* byte outside 0x20..0x7e
Kept(e) == e.kind = "kv" /\ \A i \in 1..Len(e.trail) : e.trail[i] # "\t"

\* the entries es as a dictionary of what was written: key to value, a
\* later entry of a key replacing an earlier one
WrittenDict(es) ==
  LET at == {i \in 1..Len(es) : Kept(es[i])}
      last(k) == SetMax({i \in at : es[i].key = k})
  IN  [k \in {es[i].key : i \in at} |-> WrittenValue(es[last(k)])]

\* the key an item of the SPH is stored under: the name a DS_NAME line
\* gives, the key of a single line
ItemKey(it) == IF it.kind = "group" THEN rstrip(it.e.text) ELSE it.e.key

\* the items of an SPH as the dictionary they were written to give: each
\* DS_NAME line a group of the lines that belong to it, each other line a
\* key of the SPH
WrittenSPH(items) ==
  LET at == {i \in 1..Len(items) : items[i].kind = "group" \/ Kept(items[i].e)}
      last(k) == SetMax({i \in at : ItemKey(items[i]) = k})
  IN  [k \in {ItemKey(items[i]) : i \in at} |->
         IF items[last(k)].kind = "group"
         THEN GroupValue(WrittenDict(items[last(k)].members))
         ELSE TextValue(WrittenValue(items[last(k)].e))]

\* the header lines that follow the DS_NAME line of a group item
KeptMembers(it) == {i \in 1..Len(it.members) : Kept(it.members[i])}

\* a header read_SPH accepts, cut into items: the SPH starts with its
\* descriptor, every DS_NAME line holds a quoted name and is followed by
\* six header lines, or by fewer where the file ends
CutIntoItems(h) ==
  /\ h.n = n_MPH_lines
  /\ h.gap # NoLine
  /\ h.items # << >>
  /\ h.items[1] = Line(DescriptorEntry)
  /\ \A i \in 1..Len(h.items) :
       /\ h.items[i].kind = "line" => ~StartsWith(h.items[i].e.key, DS_NAME_prefix)
       /\ h.items[i].kind = "group" =>
            /\ h.items[i].e.quoted
            /\ \/ Cardinality(KeptMembers(h.items[i])) = 6
               \/ i = Len(h.items) /\ Cardinality(KeptMembers(h.items[i])) < 6

HasContent(line) == \E i \in 1..Len(line) : line[i] # " "

\* the first line with content after the 41 lines of the MPH starts with
\* SPH_DESCRIPTOR=
FirstContentMatches(file_contents) ==
  LET at == {i \in (n_MPH_lines + 1)..Len(file_contents) : HasContent(file_contents[i])}
  IN  at # {} /\ StartsWith(file_contents[SetMin(at)], SPH_DESCRIPTOR_prefix)

(***************************************************************************)
(* C19, as claimed: read_SPH takes the SPH to begin with the line that     *)
(* follows the 41 lines of the MPH, and raises a fatal error unless the    *)
(* first line with content after the MPH matches SPH_DESCRIPTOR=.          *)
(***************************************************************************)
C19_StartsAfterMPH ==
  (sph_out # NotCalled /\ ~FirstContentMatches(HeaderText(hdr_in)))
  => sph_out.err # "none"

\* the key the line after the MPH would be stored under
GapKey(h) == IF StartsWith(h.gap.key, DS_NAME_prefix) THEN rstrip(h.gap.text) ELSE h.gap.key

(***************************************************************************)
(* C19, amended: read_SPH skips the line that follows the 41 lines of the  *)
(* MPH, whatever it holds, takes the SPH to begin with the line after it   *)
(* (the 43rd line of the file), and raises a fatal error unless that line  *)
(* is there and matches SPH_DESCRIPTOR=.                                   *)
(***************************************************************************)
C19_StartsOneLineOn ==
  sph_out # NotCalled =>
    LET file_contents == HeaderText(hdr_in)
    IN  /\ ~(/\ Len(file_contents) >= n_MPH_lines + 2
             /\ StartsWith(file_contents[n_MPH_lines + 2], SPH_DESCRIPTOR_prefix))
           => sph_out.err # "none"
        /\ (/\ sph_out.err = "none"
            /\ hdr_in.gap.kind = "kv"
            /\ \A i \in 1..Len(hdr_in.items) : ItemKey(hdr_in.items[i]) # GapKey(hdr_in))
           => GapKey(hdr_in) \notin DOMAIN sph_out.fields

\* read_SPH was called on a header whose SPH_DESCRIPTOR line follows the
\* MPH at once, with a line of another key after it, and it raised
C19_Witness ==
  /\ sph_out.err = "IOError"
  /\ hdr_in.n = n_MPH_lines
  /\ hdr_in.gap = DescriptorEntry
  /\ Len(hdr_in.items) = 2
  /\ hdr_in.items[1] = Line(FlagEntry(<<"A">>))

\* the first of the ten patterns that accepts the name of a DS_NAME line
PatternOf(e) ==
  SetMin({c \in 1..Len(regex_patterns) :
            \E name \in regex_patterns[c] :
               /\ StartsWith(e.text, name)
               /\ \A k \in (Len(name) + 1)..Len(e.text) : e.text[k] \in PadCharacters})

\* the key/value lines among es as a dictionary of what was written, a
\* later line of a key replacing an earlier one
WrittenLines(es) ==
  LET at == {i \in 1..Len(es) : es[i].kind = "kv"}
      last(k) == SetMax({i \in at : es[i].key = k})
  IN  [k \in {es[i].key : i \in at} |-> WrittenValue(es[last(k)])]

\* what read_DSD is to give when it takes the descriptor at entry line of
\* the entries es: the block of the n_DSD_lines lines from the DS_NAME line
\* on, none when the file ends before
BlockFrom(es, line) ==
  IF line + n_DSD_lines - 1 > Len(es) THEN dsd_out.err = "IndexError"
  ELSE /\ dsd_out.err = "none"
       /\ dsd_out.fields = WrittenLines(Sub(es, line, line + n_DSD_lines - 1))

(***************************************************************************)
(* C25, as claimed: when several lines after the MPH match DS_NAME         *)
(* patterns, read_DSD uses the first matching line in file order,          *)
(* whichever of the ten patterns it matches, and the block is built from   *)
(* the fixed 8 lines of that descriptor.                                   *)
(***************************************************************************)
C25_FirstInFileOrder ==
  dsd_out # NotCalled =>
    LET es == EntriesAfterMPH(hdr_in)
        named == {i \in 1..Len(es) : NamesProduct(es[i])}
    IN  named # {} => BlockFrom(es, SetMin(named))

(***************************************************************************)
(* C25, amended: the line that follows the 41 lines of the MPH is not      *)
(* looked at; among the lines after it, read_DSD takes the earliest of the *)
(* ten patterns (in their fixed order) that matches any line, and uses the *)
(* first line in file order that this pattern matches, also when a line    *)
(* of a later pattern comes before it; the block is built from the fixed   *)
(* 8 lines that start with this DS_NAME line.                              *)
(***************************************************************************)
C25_FirstOfEarliestPattern ==
  dsd_out # NotCalled =>
    LET es == EntriesAfterMPH(hdr_in)
        named == {i \in 2..Len(es) : NamesProduct(es[i])}
        c == SetMin({PatternOf(es[i]) : i \in named})
    IN  named # {} => BlockFrom(es, SetMin({i \in named : PatternOf(es[i]) = c}))

\* read_DSD was called on a header with the descriptor of SIR_SIN_L2 before
\* that of SIR_LRM_L2, and it returned the block of SIR_LRM_L2
C25_Witness ==
  /\ dsd_out.err = "none"
  /\ hdr_in.gap = Spare
  /\ Len(hdr_in.items) = 3
  /\ hdr_in.items[2] = Group(NameLine(TRUE, Name_MDS, Pad_two), Members_written)
  /\ hdr_in.items[3] = Group(NameLine(TRUE, Name_LRM, Pad_two), Members_flag)
  /\ dsd_out.fields[DS_NAME_prefix] = Name_LRM
  /\ dsd_out.fields[Key_ASCENDING_FLAG] = <<"D">>

(***************************************************************************)
(* Calls made one after another on one container                           *)
(***************************************************************************)
\* a field dictionary that asks for a field no baseline decodes
LackingFields ==
  Given(<< <<"Data_20Hz", "Lat">>, <<"Data_1Hz", "Elevation">>, <<"Data_1Hz", "Day">> >>)

SequenceCalls ==
  { Call("from_dbl", GoodName, File(Tail_C, "C", NoHeader, Payload(2, 1), 0), FALSE, CommonFields),
    Call("from_dbl", GoodName,
         WithHeader(<<Tail_B, "AB">>, Payload(1, 1), 0, ProductEntry, <<"A">>, Name_MDS, 0, 0, 0, 0),
         FALSE, None),
    Call("from_dbl", GoodName, File(Tail_B, "AB", NoHeader, Payload(1, 2), 0), TRUE, CommonFields),
    Call("from_dbl", GoodName, File(Tail_C, "C", NoHeader, Payload(4, 1), 0), FALSE, LackingFields),
    Call("from_dbl", CHOOSE n \in BadNames : TRUE, NamedBinary, FALSE, CommonFields),
    Call("from_dbl", GoodName,
         WithHeader(<<Tail_C, "C">>, Payload(1, 1), 0, BadFirstEntry, <<"A">>, Name_MDS, 0, 0, 0, 0),
         FALSE, CommonFields),
    Call("from_dbl", GoodName,
         WithHeader(<<Tail_C, "C">>, Payload(1, 1), 0, ProductEntry, <<"A">>, Name_Unknown, 0, 0, 0, 0),
         FALSE, CommonFields),
    Call("from_dbl", GoodName,
         WithHeader(<<Tail_B, "AB">>, Payload(1, 2), 0, ProductEntry, <<"A">>, Name_MDS, 0, 1, 0, 0),
         FALSE, CommonFields),
    Call("from_dbl", GoodName,
         WithHeader(<<Tail_B, "AB">>, Payload(1, 2), 4, ProductEntry, <<"A">>, Name_MDS, 0, 1, -500, 0),
         FALSE, CommonFields),
    Call("from_nc", GoodName, NamedNC, TRUE, CommonFields),
    Call("from_nc", GoodName,
         NCFile(Tail_D, -86403, << <<0, 1>> >>, 1, {"lat_poca_20_ku", "lat_01"}, {}), TRUE, None),
    Call("from_nc", GoodName, NamedNC, FALSE, LackingFields) }

InitCalls ==
  /\ mph_in = IdleMPH
  /\ mph_out = NotCalled
  /\ hdr_in = IdleHeader
  /\ sph_out = NotCalled
  /\ dsd_out = NotCalled
  /\ call \in SequenceCalls
  /\ pc = "start"
  /\ err = "none"
  /\ i_record_size = 0
  /\ read_cryosat_variables = "none"
  /\ st_size = 0
  /\ j_num_DSR = 0
  /\ headers = NoHeaders
  /\ fid = -1
  /\ n_records = 0
  /\ r = 0
  /\ CS_l2_mds = NoColumns
  /\ GPS_Time = NoTimes
  /\ leap_seconds = NoTimes
  /\ self = EmptyContainer
  /\ before = EmptyContainer
  /\ IdleTools

\* a call has returned or raised, and the next call is made on the same
\* container: its locals are new
NewCall ==
  /\ pc \in {"done", "error"}
  /\ call' \in SequenceCalls
  /\ before' = self
  /\ pc' = "start"
  /\ err' = "none"
  /\ i_record_size' = 0
  /\ read_cryosat_variables' = "none"
  /\ st_size' = 0
  /\ j_num_DSR' = 0
  /\ headers' = NoHeaders
  /\ fid' = -1
  /\ n_records' = 0
  /\ r' = 0
  /\ CS_l2_mds' = NoColumns
  /\ GPS_Time' = NoTimes
  /\ leap_seconds' = NoTimes
  /\ UNCHANGED <<mphVars, hdrVars, toolVars, self>>

NextCalls == Next \/ NewCall

SpecCalls == InitCalls /\ [][NextCalls]_vars

\* the exceptions of the format errors: a file name outside the grammar or
\* a header line that is not there (IndexError), an invalid first header
\* line, no matching descriptor or a payload beyond the file (IOError), a
\* truncated record (ValueError)
FormatErrors == {"IndexError", "IOError", "ValueError"}

(***************************************************************************)
(* C22: when from_dbl fails with a format error (file name outside the     *)
(* grammar, invalid first header line, no matching DSD, payload size       *)
(* beyond the file size, truncated record) no partial result is delivered: *)
(* the field list and the field attributes of the container are exactly    *)
(* what they were before the call.                                         *)
(***************************************************************************)
C22_NoPartialResult ==
  (call.fn = "from_dbl" /\ pc = "error" /\ err \in FormatErrors) => self = before

\* from_dbl has failed on a truncated record, on a container that held
\* fields of an earlier call
C22_Witness ==
  /\ call.fn = "from_dbl" /\ pc = "error" /\ err = "ValueError"
  /\ r = 2 /\ fid > 0
  /\ Len(before.fields) = 6
  /\ self = before

(***************************************************************************)
(* C28: after any sequence of from_dbl and from_nc calls on one container, *)
(* whether a call succeeds or fails on a requested group or field that the *)
(* decoded records lack, the field list holds no name twice and every name *)
(* in it has a field attribute.                                            *)
(***************************************************************************)
C28_FieldsHaveAttributes ==
  /\ \A i, j \in 1..Len(self.fields) : self.fields[i] = self.fields[j] => i = j
  /\ \A i \in 1..Len(self.fields) : self.fields[i] \in DOMAIN self.attrs

(***************************************************************************)
(* mosaic.update_bounds as an operation                                    *)
(***************************************************************************)
InitMosaic ==
  /\ mph_in = BlockOf(ProductEntry, 0, 2, KV(VarKey, TRUE, <<"a">>, << >>))
  /\ mph_out = NotCalled
  /\ hdr_in = IdleHeader
  /\ sph_out = NotCalled
  /\ dsd_out = NotCalled
  /\ call = NoCall
  /\ pc = "idle"
  /\ err = "none"
  /\ i_record_size = 0
  /\ read_cryosat_variables = "none"
  /\ st_size = 0
  /\ j_num_DSR = 0
  /\ headers = NoHeaders
  /\ fid = -1
  /\ n_records = 0
  /\ r = 0
  /\ CS_l2_mds = NoColumns
  /\ GPS_Time = NoTimes
  /\ leap_seconds = NoTimes
  /\ self = EmptyContainer
  /\ before = EmptyContainer
  /\ IdleTools

CallUpdateBounds ==
  /\ Len(tiles) < MaxTiles
  /\ \E temp \in TileExtents :
       /\ extent' = update_bounds(extent, temp)
       /\ tiles' = Append(tiles, temp)
  /\ UNCHANGED <<mphVars, hdrVars, callVars, before, scriptVars>>

NextMosaic == CallUpdateBounds

SpecMosaic == InitMosaic /\ [][NextMosaic]_vars

\* the smallest and the largest number of a set
Least(S) == CHOOSE x \in S : \A y \in S : x <= y
Greatest(S) == CHOOSE x \in S : \A y \in S : x >= y

\* the bounding box of a set of extents: inf and -inf where the set is empty
BoundingBox(S) ==
  << Least({t[1] : t \in S} \cup {inf}), Greatest({t[2] : t \in S} \cup {-inf}),
     Least({t[3] : t \in S} \cup {inf}), Greatest({t[4] : t \in S} \cup {-inf}) >>

\* extent a lies within extent b
Within(a, b) == a[1] >= b[1] /\ a[2] <= b[2] /\ a[3] >= b[3] /\ a[4] <= b[4]

(***************************************************************************)
(* C29: starting from the extent [inf, -inf, inf, -inf], after any         *)
(* sequence of update_bounds calls the extent is the bounding box of the   *)
(* tiles passed so far: xmin and ymin the minima, xmax and ymax the maxima *)
(* of their extents, whatever the order the tiles were passed in.  No call *)
(* shrinks the extent, and a tile that lies within the extent leaves it    *)
(* as it is.                                                               *)
(***************************************************************************)
C29_BoundingBox ==
  /\ [](extent = BoundingBox({tiles[k] : k \in 1..Len(tiles)}))
  /\ [][/\ Within(extent, extent')
        /\ (tiles' # tiles /\ Within(tiles'[Len(tiles')], extent)) => extent' = extent]_vars

\* three tiles were passed: the second widened the extent of the first to
\* the left and upwards, the third lies within the two and changed nothing
C29_Witness ==
  /\ Len(tiles) = 3
  /\ tiles[1] = <<0, MaxCoord, 0, 1>>
  /\ tiles[2] = <<-MaxCoord, -MaxCoord + 1, 1, 2>>
  /\ tiles[3] = <<0, 1, 1, 2>>
  /\ extent = <<-MaxCoord, MaxCoord, 0, 2>>

(***************************************************************************)
(* ATL06_crossovers as an operation: one step for every pair (ii, jj) of   *)
(* the two loops.  cross_tracks is a call into the library: it gives a     *)
(* crossing or None.                                                       *)
(***************************************************************************)
InitCrossovers ==
  /\ mph_in = BlockOf(ProductEntry, 0, 2, KV(VarKey, TRUE, <<"a">>, << >>))
  /\ mph_out = NotCalled
  /\ hdr_in = IdleHeader
  /\ sph_out = NotCalled
  /\ dsd_out = NotCalled
  /\ call = NoCall
  /\ pc = "idle"
  /\ err = "none"
  /\ i_record_size = 0
  /\ read_cryosat_variables = "none"
  /\ st_size = 0
  /\ j_num_DSR = 0
  /\ headers = NoHeaders
  /\ fid = -1
  /\ n_records = 0
  /\ r = 0
  /\ CS_l2_mds = NoColumns
  /\ GPS_Time = NoTimes
  /\ leap_seconds = NoTimes
  /\ self = EmptyContainer
  /\ before = EmptyContainer
  /\ extent = InitialExtent
  /\ tiles = << >>
  /\ D \in TrackLists(MaxTracks)
  /\ different_cycles \in BOOLEAN
  /\ delta_time_max \in {1, inf}
  /\ ii = 0
  /\ jj = 0
  /\ crossed = << >>
  /\ xover_list = << >>
  /\ xpc = "loop"

\* the three tests of the body of the loops that end in continue, in the
\* order of the code
Continues(Di, Dj, i, j) ==
  \/ abs(Di.delta_time - Dj.delta_time) > delta_time_max
  \/ Di.size < 2 \/ Dj.size < 2 \/ i >= j \/ Di.rgt = Dj.rgt
  \/ different_cycles /\ Di.cycle_number = Dj.cycle_number

\* the pair of the loops is (ii, jj): the body of the inner loop.  Element 0
\* of delta_time is read of both tracks before any other test, and a track
\* of size 0 has none.
PairStep ==
  /\ xpc = "loop"
  /\ ii < Len(D)
  /\ LET Di == D[ii + 1]
         Dj == D[jj + 1]
     IN  IF Di.size = 0 \/ Dj.size = 0
         THEN /\ xpc' = "IndexError"
              /\ UNCHANGED <<ii, jj, crossed, xover_list>>
         ELSE /\ \E found \in BOOLEAN :
                   IF ~Continues(Di, Dj, ii, jj)
                   THEN /\ crossed' = Append(crossed, <<ii, jj>>)
                        /\ xover_list' = IF found THEN Append(xover_list, <<ii, jj>>)
                                         ELSE xover_list
                   ELSE UNCHANGED <<crossed, xover_list>>
              /\ IF jj + 1 < Len(D) THEN ii' = ii /\ jj' = jj + 1 /\ xpc' = xpc
                 ELSE /\ ii' = ii + 1
                      /\ jj' = 0
                      /\ xpc' = IF ii + 1 < Len(D) THEN xpc ELSE "done"
  /\ UNCHANGED <<mphVars, hdrVars, callVars, before, gridVars, D, different_cycles, delta_time_max>>

NextCrossovers == PairStep

SpecCrossovers == InitCrossovers /\ [][NextCrossovers]_vars

\* the pairs the loops have been through
PairsDone ==
  {p \in (0..(Len(D) - 1)) \X (0..(Len(D) - 1)) : p[1] < ii \/ (p[1] = ii /\ p[2] < jj)}

\* the pair may be evaluated
MayCross(i, j) ==
  /\ i < j
  /\ D[i + 1].size >= 2 /\ D[j + 1].size >= 2
  /\ D[i + 1].rgt # D[j + 1].rgt
  /\ abs(D[i + 1].delta_time - D[j + 1].delta_time) <= delta_time_max
  /\ different_cycles => D[i + 1].cycle_number # D[j + 1].cycle_number

\* every pair evaluated may be, every unordered pair is evaluated at most
\* once, and no track is crossed with itself
OnlyPairsThatMay ==
  /\ \A k \in 1..Len(crossed) : MayCross(crossed[k][1], crossed[k][2])
  /\ \A k, l \in 1..Len(crossed) :
       {crossed[k][1], crossed[k][2]} = {crossed[l][1], crossed[l][2]} => k = l
  /\ \A k \in 1..Len(crossed) : crossed[k][1] # crossed[k][2]

(***************************************************************************)
(* C30: ATL06_crossovers evaluates a pair of tracks (ii, jj) only if       *)
(* ii < jj, both tracks have at least 2 points, their rgt differ, their    *)
(* first delta_time differ by at most delta_time_max and, with             *)
(* different_cycles set, their cycle numbers differ; so every unordered    *)
(* pair is evaluated at most once, no track is crossed with itself, and    *)
(* every pair with a track of fewer than 2 points, an empty track          *)
(* included, is skipped without error.                                     *)
(***************************************************************************)
C30_PairsEvaluated ==
  /\ OnlyPairsThatMay
  /\ xpc \in {"idle", "loop", "done"}

====
